---------------------------- MODULE Spec2Model ----------------------------
(*
  State-machine model of the computational core of llm-analytics:
    - bar normalisation on the cache read path (market_cache._normalize_bars
      followed by quant.engine._bars_to_df),
    - the per-ticker range backtest of the low-volume pullback strategy
      (strategy.low_volume_pullback.backtest_low_volume_pullback_range_on_df),
    - the batch operations over a ticker list (screening, range aggregation),
    - the generic backtest (quant.engine._run_strategy_on_bars with the two
      strategies it drives).

  Prices, volumes and timestamps are integers; every ratio the code compares
  (returns, moving averages, volume ratios, RSI) is compared by
  cross-multiplication with its positive denominator, so the comparisons are
  exact.
*)
EXTENDS Integers, Sequences, FiniteSets, TLC

VARIABLES
    \* ---- bar normalisation -------------------------------------------
    raw,                 \* the raw bar records read from the cache file
    normalized,          \* list returned by _normalize_bars
    df,                  \* rows of the frame returned by _bars_to_df
    npc,                 \* "raw" -> "normalized" -> "df"
    \* ---- per-ticker range backtest -----------------------------------
    rb,                  \* arguments of backtest_low_volume_pullback_range_on_df
    rpc,                 \* "idle" | "start" | "loop" | "done"
    asof_idx,            \* loop variable of the as-of scan
    signal_idx,          \* signal bar chosen by the last iteration (0 = None)
    evaluated_bars,
    triggered_events,
    sample_count_by_day,
    win_count_by_day,
    bucket_count_by_day,
    rerror,              \* "" or the value of the returned "error" key
    \* ---- batch operations over a ticker list --------------------------
    bop,                 \* "screen" | "range": the batch operation running
    btickers,            \* the (distinct) symbols of the call, in order
    bcache,              \* per ticker: what the market cache holds for it
    bauto,               \* autoRefreshIfMissing of the range backtest config
    bpc,                 \* "idle" | "start" | "loop" | "done"
    bidx,                \* position of the per-ticker loop
    bresults,            \* per processed ticker: what the call made of it
    berror,              \* "" or the error the whole call raised
    \* ---- generic backtest (_run_strategy_on_bars) ---------------------
    eng,                 \* arguments: bars, strategy, fees_bps, initial_cash, ...
    epc,                 \* "idle" | "start" | "run" | "done"
    ei,                  \* bar the simulation loop handles next
    ecash,               \* broker cash, in 1/10000 of a currency unit
    eshares,             \* size of the open position (0 = FLAT)
    eentry,              \* entry price and entry bar of the open trade
    eorder,              \* order waiting for the next bar: "none" | "buy" | "close"
    etrades,             \* closed trades, in order
    efills,              \* the fills executed so far: "entry" / "exit"
    eequity,             \* equity logged per simulated bar
    eresult,             \* the StrategyResult returned, or NoResult
    eerror,              \* "" or the message of the ApiError raised
    \* ---- as-of detector and single-signal backtest ---------------------
    dop,                 \* "none" | "detect" | "backtest"
    din,                 \* arguments of the call
    dpc,                 \* "idle" | "start" | "done"
    dres,                \* the dict returned, or NoDict
    \* ---- universe-level range aggregation ------------------------------
    ain,                 \* horizon and the per-symbol outcomes, in loop order
    apc,                 \* "idle" | "loop" | "done"
    aidx,                \* position of the symbol loop
    atotals,             \* evaluated/triggered totals and per-day counts so far
    asummary,            \* the summary returned, or NoSummary
    aerror,              \* "" or the error raised
    \* ---- SMA series of the bars repository (_compute_sma_series) --------
    sin,                 \* arguments: values and window
    spc,                 \* "idle" | "start" | "loop" | "done"
    sidx,                \* position of the loop over values
    srunning,            \* running sum
    squeue,              \* the queue of the values summed
    soutput,             \* the output list
    \* ---- run_backtest over the requested tickers ------------------------
    qin,                 \* the request and what the cache holds per ticker
    qpc,                 \* "idle" | "start" | "loop" | "done"
    qidx,                \* position of the loop over request.tickers
    qreads,              \* the tickers whose bars were asked of the cache
    qresults,            \* the local results dict: ticker -> signal
    qresponse,           \* the response returned, or NoResponse
    qerror,              \* "" or the error raised
    \* ---- LlmProvider.complete -------------------------------------------
    lin,                 \* the provider config: available, max_retries
    lpc,                 \* "idle" | "start" | "loop" | "failed" | "done"
    lattempt,            \* the loop variable attempt
    lhistory,            \* the outcome of every HTTP attempt made, in order
    lsleeps,             \* the pauses slept, in tenths of a second
    lresult,             \* the content returned, or NoContent
    lerror,              \* "" or the error raised
    \* ---- MarketCache.refresh --------------------------------------------
    cin,                 \* the tickers requested and what the cache held
    cpc,                 \* "idle" | "ticker" | "download" | "write" | "done"
    cidx,                \* position of the loop over tickers
    ctf,                 \* position of the timeframe loop under way
    cbars,               \* per timeframe downloaded for this ticker: "bars" | "empty"
    cdone,               \* the timeframes whose file this iteration has written
    cmanifest,           \* the manifest in memory: ticker -> state of its entry
    cdisk,               \* the manifest on disk
    cfiles,              \* the cache files on disk, as <<ticker, timeframe>>
    csucceeded,          \* the list succeeded
    cfailed              \* the tickers of the list failed

normVars  == <<raw, normalized, df, npc>>
rangeVars == <<rb, rpc, asof_idx, signal_idx, evaluated_bars, triggered_events,
               sample_count_by_day, win_count_by_day, bucket_count_by_day, rerror>>
batchVars == <<bop, btickers, bcache, bauto, bpc, bidx, bresults, berror>>
engVars == <<eng, epc, ei, ecash, eshares, eentry, eorder, etrades, efills,
             eequity, eresult, eerror>>
detVars == <<dop, din, dpc, dres>>
aggVars == <<ain, apc, aidx, atotals, asummary, aerror>>
smaVars == <<sin, spc, sidx, srunning, squeue, soutput>>
runVars == <<qin, qpc, qidx, qreads, qresults, qresponse, qerror>>
llmVars == <<lin, lpc, lattempt, lhistory, lsleeps, lresult, lerror>>
cacheVars == <<cin, cpc, cidx, ctf, cbars, cdone, cmanifest, cdisk, cfiles, csucceeded, cfailed>>
vars == <<normVars, rangeVars, batchVars, engVars, detVars, aggVars, smaVars, runVars, llmVars, cacheVars>>

-----------------------------------------------------------------------------
(* Generic helpers *)

Max2(a, b) == IF a >= b THEN a ELSE b

Min2(a, b) == IF a <= b THEN a ELSE b

\* All sequences over S of length 0..n
SeqsUpTo(S, n) == UNION { [1..k -> S] : k \in 0..n }

-----------------------------------------------------------------------------
(* ---------------- Bar normalisation (cache read path) ------------------ *)

MaxRaw == 3          \* longest raw bar list explored
MaxTs  == 2          \* raw timestamps are NoTs or 1..MaxTs

\* a record whose "t" is not a number and whose "time" is no parseable string
NoTs == 0 - 1

\* payloads that tell records with the same timestamp apart
Payloads == {1, 2}

RawBars == [t : {NoTs} \cup (1..MaxTs), c : Payloads]

\* list.sort(key=...) is stable: an element goes after every element whose
\* key is <= its own
RECURSIVE InsertByKey(_, _)
InsertByKey(sorted, bar) ==
    IF sorted = <<>> THEN <<bar>>
    ELSE IF sorted[Len(sorted)].t <= bar.t THEN Append(sorted, bar)
    ELSE Append(InsertByKey(SubSeq(sorted, 1, Len(sorted) - 1), bar),
                sorted[Len(sorted)])

RECURSIVE StableSortByT(_)
StableSortByT(s) ==
    IF s = <<>> THEN <<>>
    ELSE InsertByKey(StableSortByT(SubSeq(s, 1, Len(s) - 1)), s[Len(s)])

\* the records _normalize_bars keeps: those with a usable timestamp
RECURSIVE KeepTimestamped(_)
KeepTimestamped(s) ==
    IF s = <<>> THEN <<>>
    ELSE LET rest == KeepTimestamped(Tail(s)) IN
         IF Head(s).t = NoTs THEN rest ELSE <<Head(s)>> \o rest

\* market_cache._normalize_bars: drop records without timestamp, copy the
\* fields, sort by "t" (stable); nothing is removed for a repeated timestamp
_normalize_bars(bars) == StableSortByT(KeepTimestamped(bars))

\* _extract_ts of the engine: None when the record carries no timestamp
_extract_ts(bar) == bar.t

\* the orders DataFrame.sort_values("time") may produce: the default sort
\* kind is not stable, so rows with equal time may come out in any order
SortedOrders(recs) ==
    { p \in [1..Len(recs) -> 1..Len(recs)] :
        /\ \A i, j \in 1..Len(recs) : i # j => p[i] # p[j]
        /\ \A i, j \in 1..Len(recs) : i < j => recs[p[i]].t <= recs[p[j]].t }

\* quant.engine._bars_to_df: one row per record with a timestamp, sorted by
\* time, indexed by time; rows are never dropped for a repeated timestamp
_bars_to_df(bars) ==
    LET recs == KeepTimestamped(bars) IN
    { [i \in 1..Len(recs) |-> [time |-> _extract_ts(recs[p[i]]),
                                Close |-> recs[p[i]].c]] : p \in SortedOrders(recs) }

NormInit ==
    /\ raw \in SeqsUpTo(RawBars, MaxRaw)
    /\ normalized = <<>>
    /\ df = <<>>
    /\ npc = "raw"

NormIdle ==
    /\ raw = <<>>
    /\ normalized = <<>>
    /\ df = <<>>
    /\ npc = "idle"

\* MarketCache.get_bars_batch: results[ticker] = _normalize_bars(bars)
NormalizeBars ==
    /\ npc = "raw"
    /\ normalized' = _normalize_bars(raw)
    /\ npc' = "normalized"
    /\ UNCHANGED <<raw, df>>

\* the engine turns the cached list into its working frame
BarsToDf ==
    /\ npc = "normalized"
    /\ df' \in _bars_to_df(normalized)
    /\ npc' = "df"
    /\ UNCHANGED <<raw, normalized>>

-----------------------------------------------------------------------------
(* ------------- Low-volume pullback: per-ticker range backtest ----------- *)
(* Bars are indexed 1..Len(bars) here; the source's 0-based index idx is the
   model's idx + 1.  signal_idx = 0 stands for the source's None.           *)

MaxBars    == 5      \* longest bar series explored
MaxHorizon == 2      \* largest horizon_bars explored

\* A fraction num/den with den > 0
Frac(n, d) == [num |-> n, den |-> d]

\* params.eps: either the default 1e-12 (flagged, since its denominator does
\* not fit the integers TLC computes with) or a coarse value num/den
EpsDefault == [floor |-> TRUE,  num |-> 0, den |-> 1]
EpsCoarse  == [floor |-> FALSE, num |-> 1, den |-> 100]

Sign(x) == IF x > 0 THEN 1 ELSE IF x < 0 THEN 0 - 1 ELSE 0

\* sign of K*e - A for integers K >= 0 and A, where e is an eps/tol value.
\* For the default 1e-12 and 0 < K < 10^12 the product lies strictly between
\* 0 and 1, so it is above every integer A <= 0 and below every A >= 1.
EpsCmp(K, A, e) ==
    IF e.floor
      THEN IF K = 0 THEN Sign(0 - A) ELSE IF A <= 0 THEN 1 ELSE 0 - 1
      ELSE Sign(K * e.num - A * e.den)

\* tol = max(float(params.eps), 1e-12)
Tol(eps) == IF eps.floor THEN EpsDefault ELSE eps

BucketNames == {"down_gt_5", "down_0_5", "up_0_5", "up_gt_5"}

\* sum of f[i] for i in lo..hi
RECURSIVE SumRange(_, _, _)
SumRange(f, lo, hi) == IF lo > hi THEN 0 ELSE f[hi] + SumRange(f, lo, hi - 1)

Closes(bars)  == [i \in 1..Len(bars) |-> bars[i].c]
Volumes(bars) == [i \in 1..Len(bars) |-> bars[i].v]

\* close.rolling(w, min_periods=w).mean() at index i, as the pair
\* (defined, w * mean): defined only from the w-th bar on
RollingDefined(i, w) == w >= 1 /\ i >= w
RollingSum(vals, i, w) == SumRange(vals, i - w + 1, i)

\* the rolling mean of the closes is NaN as well when a close of its window is
WindowDefined(bars, i, w) ==
    RollingDefined(i, w) /\ \A k \in (i - w + 1)..i : bars[k].nan # "close"

\* required_len of the detector and of the range backtest
required_len(p) ==
    Max2(p.vol_avg_window + 1,
      Max2(p.long_ma + p.long_ma_slope_window,
        Max2(p.slow_ma, Max2(p.fast_ma, p.lookback_bars))))

\* trend_ok[i]: close > fast_ma, close > slow_ma, fast_ma > slow_ma and
\* long_ma > long_ma.shift(slope_window) * (1 + slope_min_pct); a comparison
\* with an undefined average is False (fillna(False))
trend_ok(bars, p, i) ==
    LET c == Closes(bars)
        f == p.fast_ma
        s == p.slow_ma
        l == p.long_ma
        j == i - p.long_ma_slope_window
        pct == p.long_ma_slope_min_pct
    IN /\ WindowDefined(bars, i, f) /\ WindowDefined(bars, i, s)
       /\ WindowDefined(bars, i, l)
       /\ j >= 1 /\ WindowDefined(bars, j, l)
       /\ c[i] * f > RollingSum(c, i, f)
       /\ c[i] * s > RollingSum(c, i, s)
       /\ RollingSum(c, i, f) * s > RollingSum(c, i, s) * f
       /\ RollingSum(c, i, l) * pct.den > RollingSum(c, j, l) * (pct.den + pct.num)

\* x / open_denom >= q for an integer x >= 0 and a fraction q, where
\* open_denom = open if open > eps else eps
OverOpenDenomGeq(x, o, q, eps) ==
    IF o >= 1 THEN x * q.den >= q.num * o
    ELSE \* open <= 0 <= eps: the denominator is eps; x/eps >= q iff q.num*eps <= x*q.den
         IF q.num <= 0 THEN TRUE ELSE EpsCmp(q.num, x * q.den, eps) <= 0

Abs(x) == IF x < 0 THEN 0 - x ELSE x

\* bearish_ok[i]: close < open, body_pct >= min_body_pct and, when
\* min_range_pct is set, range_pct >= min_range_pct
BearishOkMutStrictBody(bars, p, i) ==
    /\ bars[i].nan = "none"
    /\ bars[i].c < bars[i].o
    /\ Abs(bars[i].c - bars[i].o) * p.min_body_pct.den > p.min_body_pct.num * bars[i].o
    /\ (p.min_range_pct.set =>
          OverOpenDenomGeq(bars[i].h - bars[i].l, bars[i].o, p.min_range_pct, p.eps))
bearish_ok(bars, p, i) ==
    LET b == bars[i] IN
    /\ b.nan = "none"
    /\ b.c < b.o
    /\ OverOpenDenomGeq(Abs(b.c - b.o), b.o, p.min_body_pct, p.eps)
    /\ (p.min_range_pct.set =>
          OverOpenDenomGeq(b.h - b.l, b.o, p.min_range_pct, p.eps))

\* volume_ok[i]: the mean of the vol_avg_window volumes before i is defined
\* and > 0, volume > 0 and volume / mean <= vol_ratio_max
volume_ok(bars, p, i) ==
    LET v == Volumes(bars)
        w == p.vol_avg_window
        sumPrev == RollingSum(v, i - 1, w)
    IN /\ i - 1 >= 1 /\ RollingDefined(i - 1, w)
       /\ sumPrev > 0
       /\ v[i] > 0
       /\ v[i] * w * p.vol_ratio_max.den <= p.vol_ratio_max.num * sumPrev

\* hit = (trend_ok & bearish_ok & volume_ok).fillna(False)
hit(bars, p, i) ==
    /\ i \in 1..Len(bars)
    /\ trend_ok(bars, p, i) /\ bearish_ok(bars, p, i) /\ volume_ok(bars, p, i)

\* df.index.searchsorted(start_dt, side="left"), as a 1-based position
start_pos(bars, start_dt) ==
    Cardinality({i \in 1..Len(bars) : bars[i].t < start_dt}) + 1

\* df.index.searchsorted(end_dt, side="right") - 1, as a 1-based position
EndPosMutExclusive(bars, end_dt) ==
    Cardinality({i \in 1..Len(bars) : bars[i].t < end_dt})
end_pos(bars, end_dt) ==
    Cardinality({i \in 1..Len(bars) : bars[i].t <= end_dt})

\* eval_start = max(start_pos, required_len - 1)
EvalStartMutNoWarmUp(bars, p, start_dt) == start_pos(bars, start_dt)
eval_start(bars, p, start_dt) == Max2(start_pos(bars, start_dt), required_len(p))

\* the bucket of the return close_val / entry_price - 1 (entry_price > 0):
\*   ret <= -threshold + tol -> down_gt_5;  ret < -tol -> down_0_5;
\*   ret <= threshold + tol -> up_0_5;      else up_gt_5
BucketMutExclusive(close_val, entry_price, threshold, tol) ==
    LET d == (close_val - entry_price) * threshold.den
    IN IF d + threshold.num * entry_price < 0 THEN "down_gt_5"
       ELSE IF close_val < entry_price THEN "down_0_5"
       ELSE IF d - threshold.num * entry_price < 0 THEN "up_0_5"
       ELSE "up_gt_5"
BucketMutGap(close_val, entry_price, threshold, tol) ==
    LET d == (close_val - entry_price) * threshold.den
        k == entry_price * threshold.den
    IN IF EpsCmp(k, d + threshold.num * entry_price, tol) >= 0 THEN "down_gt_5"
       ELSE IF EpsCmp(entry_price, entry_price - close_val, tol) < 0 THEN "down_0_5"
       ELSE IF close_val = entry_price THEN "none"
       ELSE IF EpsCmp(k, d - threshold.num * entry_price, tol) >= 0 THEN "up_0_5"
       ELSE "up_gt_5"
Bucket(close_val, entry_price, threshold, tol) ==
    LET d == (close_val - entry_price) * threshold.den
        k == entry_price * threshold.den
    IN IF EpsCmp(k, d + threshold.num * entry_price, tol) >= 0 THEN "down_gt_5"
       ELSE IF EpsCmp(entry_price, entry_price - close_val, tol) < 0 THEN "down_0_5"
       ELSE IF EpsCmp(k, d - threshold.num * entry_price, tol) >= 0 THEN "up_0_5"
       ELSE "up_gt_5"

\* ---- inputs explored ----------------------------------------------------

MaxLookback == 2     \* largest params.lookback_bars explored

\* a candle without body on normal volume, or a bearish candle on low volume;
\* or a candle of bad data: an open of 0, an open that is NaN, a close that is
\* NaN (nan names the NaN price, whose number is then never read)
MkBar(t, c, kind) ==
    IF kind = "pullback"
      THEN [t |-> t, o |-> c + 2, h |-> c + 2, l |-> c, c |-> c, v |-> 300, nan |-> "none"]
    ELSE IF kind = "zero_open"
      THEN [t |-> t, o |-> 0,     h |-> c,     l |-> 0, c |-> c, v |-> 1000, nan |-> "none"]
    ELSE IF kind = "nan_open"
      THEN [t |-> t, o |-> 0,     h |-> c,     l |-> c, c |-> c, v |-> 1000, nan |-> "open"]
    ELSE IF kind = "nan_close"
      THEN [t |-> t, o |-> c,     h |-> c,     l |-> c, c |-> 0, v |-> 1000, nan |-> "close"]
      ELSE [t |-> t, o |-> c,     h |-> c,     l |-> c, c |-> c, v |-> 1000, nan |-> "none"]

RangePrices == {95, 100, 105, 110}

\* closes between which every return is -5%, 0, +5% or well outside
CorePrices == {95, 100, 105}

\* two rising warm-up bars followed by up to MaxBars - 2 free bars with
\* closes in prices, or no bar at all; bar i carries timestamp i
WarmUp == <<[c |-> 96, kind |-> "plain"], [c |-> 98, kind |-> "plain"]>>

RangeSeriesOf(prices, kinds) ==
    {<<>>} \cup
    { [i \in 1..(2 + Len(tail)) |->
          LET b == (WarmUp \o tail)[i] IN MkBar(i, b.c, b.kind)] :
      tail \in SeqsUpTo([c : prices, kind : kinds], MaxBars - 2) }

RangeSeries(prices) == RangeSeriesOf(prices, {"plain", "pullback"})

\* series at one price level with candles of bad data among them
BadDataSeries ==
    RangeSeriesOf({100}, {"plain", "pullback", "zero_open", "nan_open", "nan_close"})

\* the reference parameters of the tests with shorter windows, so that a bar
\* can be a hit from the third bar on (required_len = 3)
Params(lb, e) ==
    [fast_ma |-> 2, slow_ma |-> 3, long_ma |-> 2,
     long_ma_slope_window |-> 1, long_ma_slope_min_pct |-> Frac(0, 1),
     vol_avg_window |-> 2, vol_ratio_max |-> Frac(1, 2),
     min_body_pct |-> Frac(1, 100),
     min_range_pct |-> [set |-> FALSE, num |-> 0, den |-> 1],
     lookback_bars |-> lb, eps |-> e]

EntryExecutions == {"close", "next_open", "vwap"}

RangeInputSet(prices, starts, ends, horizons, execs, lookbacks, epss) ==
    [bars : RangeSeries(prices),
     params : {Params(lb, e) : lb \in lookbacks, e \in epss},
     start_dt : starts, end_dt : ends,
     horizon_bars : horizons, entry_execution : execs,
     bucket_threshold_pct : {Frac(5, 100)}]

\* the core series under every window, horizon and lookback; every series
\* over the whole window under both eps; an unsupported entry execution; an
\* invalid horizon; windows that are inverted, too early or past the data;
\* series with candles of bad data; the empty frame
RangeInputs ==
    RangeInputSet(CorePrices, {0, 4}, {4, MaxBars + 1}, {1, MaxHorizon},
                  {"close", "next_open"}, {1, MaxLookback}, {EpsDefault})
    \cup RangeInputSet(RangePrices, {0}, {MaxBars + 1}, {MaxHorizon},
                       {"close", "next_open"}, {1}, {EpsDefault, EpsCoarse})
    \cup RangeInputSet(CorePrices, {0}, {MaxBars + 1}, {1}, {"vwap"}, {1},
                       {EpsDefault})
    \cup RangeInputSet(CorePrices, {0}, {MaxBars + 1}, {0}, EntryExecutions, {1},
                       {EpsDefault})
    \cup RangeInputSet(CorePrices, {4, MaxBars + 1}, {2, MaxBars + 1}, {1},
                       {"close"}, {1}, {EpsDefault})
    \cup [bars : BadDataSeries, params : {Params(1, EpsDefault)},
          start_dt : {0}, end_dt : {MaxBars + 1},
          horizon_bars : {MaxHorizon}, entry_execution : {"close", "next_open"},
          bucket_threshold_pct : {Frac(5, 100)}]
    \cup [bars : {<<>>}, params : {Params(1, EpsDefault)},
          start_dt : {0}, end_dt : {MaxBars + 1},
          horizon_bars : {0, 1, MaxHorizon}, entry_execution : {"close"},
          bucket_threshold_pct : {Frac(5, 100)}]

ZeroByDay(horizon) == [day \in 1..horizon |-> 0]

ZeroBuckets(horizon) == [day \in 1..horizon |-> [b \in BucketNames |-> 0]]

RangeInit ==
    /\ rb \in RangeInputs
    /\ rpc = "start"
    /\ asof_idx = 0
    /\ signal_idx = 0
    /\ evaluated_bars = 0
    /\ triggered_events = 0
    /\ sample_count_by_day = <<>>
    /\ win_count_by_day = <<>>
    /\ bucket_count_by_day = <<>>
    /\ rerror = ""

RangeIdle ==
    /\ rb = <<>>
    /\ rpc = "idle"
    /\ asof_idx = 0
    /\ signal_idx = 0
    /\ evaluated_bars = 0
    /\ triggered_events = 0
    /\ sample_count_by_day = <<>>
    /\ win_count_by_day = <<>>
    /\ bucket_count_by_day = <<>>
    /\ rerror = ""

\* ---- the function, one action per step ---------------------------------

\* horizon < 1: return {"error": "invalid_horizon"}
RangeInvalidHorizon ==
    /\ rpc = "start"
    /\ rb.horizon_bars < 1
    /\ rerror' = "invalid_horizon"
    /\ rpc' = "done"
    /\ UNCHANGED <<rb, asof_idx, signal_idx, evaluated_bars, triggered_events,
                   sample_count_by_day, win_count_by_day, bucket_count_by_day>>

\* the three early returns with zero counts: empty frame, window outside the
\* data or inverted, no bar of the window at or after required_len - 1
NoEvaluableBar(r) ==
    \/ Len(r.bars) = 0
    \/ end_pos(r.bars, r.end_dt) < 1
    \/ start_pos(r.bars, r.start_dt) > Len(r.bars)
    \/ end_pos(r.bars, r.end_dt) < start_pos(r.bars, r.start_dt)
    \/ eval_start(r.bars, r.params, r.start_dt) > end_pos(r.bars, r.end_dt)

RangeEmpty ==
    /\ rpc = "start"
    /\ rb.horizon_bars >= 1
    /\ NoEvaluableBar(rb)
    /\ sample_count_by_day' = ZeroByDay(rb.horizon_bars)
    /\ win_count_by_day' = ZeroByDay(rb.horizon_bars)
    /\ bucket_count_by_day' = ZeroBuckets(rb.horizon_bars)
    /\ rpc' = "done"
    /\ UNCHANGED <<rb, asof_idx, signal_idx, evaluated_bars, triggered_events, rerror>>

\* indicators are precomputed, counters zeroed, the scan starts at eval_start
RangeBegin ==
    /\ rpc = "start"
    /\ rb.horizon_bars >= 1
    /\ ~NoEvaluableBar(rb)
    /\ sample_count_by_day' = ZeroByDay(rb.horizon_bars)
    /\ win_count_by_day' = ZeroByDay(rb.horizon_bars)
    /\ bucket_count_by_day' = ZeroBuckets(rb.horizon_bars)
    /\ asof_idx' = eval_start(rb.bars, rb.params, rb.start_dt)
    /\ rpc' = "loop"
    /\ UNCHANGED <<rb, signal_idx, evaluated_bars, triggered_events, rerror>>

\* the bars at or before asof whose hit flag is set, within the lookback
\* window (lookback_bars <= 1: the as-of bar alone)
LookbackHits(bars, p, asof) ==
    IF p.lookback_bars <= 1
      THEN {i \in {asof} : hit(bars, p, i)}
      ELSE {i \in Max2(1, asof - p.lookback_bars + 1)..asof : hit(bars, p, i)}

SetMax(S) == CHOOSE x \in S : \A y \in S : y <= x

\* signal_idx of one iteration: the most recent hit of the window, 0 if none
SignalIdxMutOwnBar(bars, p, asof) == IF hit(bars, p, asof) THEN asof ELSE 0
SignalIdx(bars, p, asof) ==
    LET hs == LookbackHits(bars, p, asof) IN
    IF hs = {} THEN 0 ELSE SetMax(hs)

\* the days 1..horizon a triggered event samples: consecutive from day 1 while
\* the forward bar exists and its close is not NaN
SampledDaysMutSkipNaN(bars, sig, horizon) ==
    {day \in 1..horizon : sig + day <= Len(bars) /\ bars[sig + day].nan # "close"}
SampledDays(bars, sig, horizon) ==
    {day \in 1..horizon :
        /\ sig + day <= Len(bars)
        /\ \A d \in 1..day : bars[sig + d].nan # "close"}

\* counters after the forward loop of one triggered event
AddSamples(cnt, bars, sig, horizon) ==
    [day \in 1..horizon |->
        IF day \in SampledDays(bars, sig, horizon) THEN cnt[day] + 1 ELSE cnt[day]]

AddWins(cnt, bars, sig, entry_price, horizon) ==
    [day \in 1..horizon |->
        IF day \in SampledDays(bars, sig, horizon) /\ bars[sig + day].c > entry_price
          THEN cnt[day] + 1 ELSE cnt[day]]

AddBuckets(cnt, bars, sig, entry_price, horizon, threshold, tol) ==
    [day \in 1..horizon |->
        [b \in BucketNames |->
            IF /\ day \in SampledDays(bars, sig, horizon)
               /\ b = Bucket(bars[sig + day].c, entry_price, threshold, tol)
              THEN cnt[day][b] + 1 ELSE cnt[day][b]]]

\* a triggered event is passed over: under next_open there is no bar after
\* the signal bar, or the entry price is NaN or <= 0
SkipsEventMutNegativeOnly(bars, sig, entry_execution) ==
    IF entry_execution = "close"
      THEN bars[sig].nan = "close" \/ bars[sig].c < 0
      ELSE \/ sig + 1 > Len(bars)
           \/ bars[sig + 1].nan = "open"
           \/ bars[sig + 1].o < 0
SkipsEvent(bars, sig, entry_execution) ==
    IF entry_execution = "close"
      THEN bars[sig].nan = "close" \/ bars[sig].c <= 0
      ELSE \/ sig + 1 > Len(bars)
           \/ bars[sig + 1].nan = "open"
           \/ bars[sig + 1].o <= 0

\* one iteration of "for asof_idx in range(eval_start, end_pos + 1)"
RangeStep ==
    /\ rpc = "loop"
    /\ asof_idx <= end_pos(rb.bars, rb.end_dt)
    /\ LET bars == rb.bars
           p == rb.params
           sig == SignalIdx(bars, p, asof_idx)
           h == rb.horizon_bars
           entry_price == IF rb.entry_execution = "close" THEN bars[sig].c
                          ELSE bars[sig + 1].o
       IN /\ evaluated_bars' = evaluated_bars + 1
          /\ signal_idx' = sig
          /\ IF sig = 0
               THEN \* no signal: continue
                    /\ asof_idx' = asof_idx + 1
                    /\ UNCHANGED <<triggered_events, sample_count_by_day,
                                   win_count_by_day, bucket_count_by_day, rpc, rerror>>
             ELSE IF rb.entry_execution \notin {"close", "next_open"}
               THEN \* return {"error": "invalid_entry_execution"}
                    /\ triggered_events' = triggered_events + 1
                    /\ rerror' = "invalid_entry_execution"
                    /\ rpc' = "done"
                    /\ UNCHANGED <<asof_idx, sample_count_by_day,
                                   win_count_by_day, bucket_count_by_day>>
             ELSE IF SkipsEvent(bars, sig, rb.entry_execution)
               THEN \* no entry bar, or no usable entry price: continue
                    /\ triggered_events' = triggered_events + 1
                    /\ asof_idx' = asof_idx + 1
                    /\ UNCHANGED <<sample_count_by_day, win_count_by_day,
                                   bucket_count_by_day, rpc, rerror>>
             ELSE /\ triggered_events' = triggered_events + 1
                  /\ sample_count_by_day' = AddSamples(sample_count_by_day, bars, sig, h)
                  /\ win_count_by_day' = AddWins(win_count_by_day, bars, sig, entry_price, h)
                  /\ bucket_count_by_day' =
                        AddBuckets(bucket_count_by_day, bars, sig, entry_price, h,
                                   rb.bucket_threshold_pct, Tol(p.eps))
                  /\ asof_idx' = asof_idx + 1
                  /\ UNCHANGED <<rpc, rerror>>
    /\ UNCHANGED rb

\* the scan is over: return the counts
RangeReturn ==
    /\ rpc = "loop"
    /\ asof_idx > end_pos(rb.bars, rb.end_dt)
    /\ rpc' = "done"
    /\ UNCHANGED <<rb, asof_idx, signal_idx, evaluated_bars, triggered_events,
                   sample_count_by_day, win_count_by_day, bucket_count_by_day, rerror>>

-----------------------------------------------------------------------------
(* ------------------- Batch operations over a ticker list ---------------- *)

MaxTickers == 3      \* longest ticker list explored

Tickers == {"T1", "T2", "T3", "T4"}

\* What the cache holds for a ticker:
\*   "fresh"   manifest entry fresh, file present, enough history
\*   "short"   as fresh, but fewer bars than required_len
\*   "empty"   as fresh, but the file holds no bar
\*   "missing" no manifest entry or no file
\*   "stale"   manifest entry older than the timeframe's TTL
CacheStates == {"fresh", "short", "empty", "missing", "stale"}

\* ticker lists without repetition (the callers de-duplicate)
TickerLists ==
    { l \in SeqsUpTo(Tickers, MaxTickers) :
        Len(l) >= 1 /\ \A i, j \in 1..Len(l) : i # j => l[i] # l[j] }

\* MarketCache._validate_manifest: the tickers reported missing or stale
NotReady(cache, tickers) ==
    {t \in tickers : cache[t] \in {"missing", "stale"}}

\* MarketCache.get_bars_batch: raises cache_not_ready when any requested
\* ticker is missing or stale, before any file is read
get_bars_batch_raises(cache, tickers) == NotReady(cache, tickers) # {}

\* what the per-ticker body of screen_low_volume_pullback yields for a ticker
ScreenResult(cache, t) ==
    IF get_bars_batch_raises(cache, {t}) THEN "error:cache_not_ready"
    ELSE IF cache[t] = "empty" THEN "error:no_bars"
    ELSE IF cache[t] = "short" THEN "error:insufficient_bars"
    ELSE "evaluated"

\* what the per-ticker body of low_volume_pullback_backtest_range does with a
\* ticker whose bars were fetched
RangeResult(cache, t) ==
    IF cache[t] = "empty" THEN "skipped:no_bars"
    ELSE IF cache[t] = "short" THEN "evaluated:zero_bars"
    ELSE "evaluated"

BatchInit ==
    /\ bop \in {"screen", "range"}
    /\ btickers \in TickerLists
    /\ bcache \in [Tickers -> CacheStates]
    /\ bauto \in BOOLEAN
    /\ (bop = "screen" => bauto = FALSE)
    /\ \A t \in Tickers : (\A i \in 1..Len(btickers) : btickers[i] # t) => bcache[t] = "fresh"
    /\ bpc = "start"
    /\ bidx = 1
    /\ bresults = <<>>
    /\ berror = ""

BatchIdle ==
    /\ bop = "none"
    /\ btickers = <<>>
    /\ bcache = <<>>
    /\ bauto = FALSE
    /\ bpc = "idle"
    /\ bidx = 1
    /\ bresults = <<>>
    /\ berror = ""

Range(f) == {f[x] : x \in DOMAIN f}

\* screen_low_volume_pullback: timeframe and cache are resolved, the loop starts
ScreenBegin ==
    /\ bpc = "start" /\ bop = "screen"
    /\ bpc' = "loop"
    /\ UNCHANGED <<bop, btickers, bcache, bauto, bidx, bresults, berror>>

\* one iteration of "for symbol in tickers": the ticker's own cache error is
\* caught and yielded with the ticker
ScreenStep ==
    /\ bpc = "loop" /\ bop = "screen"
    /\ bidx <= Len(btickers)
    /\ bresults' = Append(bresults, [symbol |-> btickers[bidx],
                                     result |-> ScreenResult(bcache, btickers[bidx])])
    /\ bidx' = bidx + 1
    /\ UNCHANGED <<bop, btickers, bcache, bauto, bpc, berror>>

\* the generator is exhausted
ScreenEnd ==
    /\ bpc = "loop" /\ bop = "screen"
    /\ bidx > Len(btickers)
    /\ bpc' = "done"
    /\ UNCHANGED <<bop, btickers, bcache, bauto, bidx, bresults, berror>>

\* low_volume_pullback_backtest_range with autoRefreshIfMissing:
\* _ensure_cache_ready refreshes the symbols when the cache is not ready; a
\* failed refresh of any symbol raises refresh_failed, otherwise every symbol
\* that was not ready now holds downloaded bars
RangeBatchEnsureReady ==
    /\ bpc = "start" /\ bop = "range" /\ bauto
    /\ get_bars_batch_raises(bcache, Range(btickers))
    /\ \E outcome \in [NotReady(bcache, Range(btickers)) -> {"failed", "fresh", "short"}] :
         IF \E t \in DOMAIN outcome : outcome[t] = "failed"
           THEN /\ berror' = "refresh_failed"
                /\ bpc' = "done"
                /\ UNCHANGED bcache
           ELSE /\ bcache' = [t \in Tickers |->
                                IF t \in DOMAIN outcome THEN outcome[t] ELSE bcache[t]]
                /\ UNCHANGED <<bpc, berror>>
    /\ UNCHANGED <<bop, btickers, bauto, bidx, bresults>>

\* bars_by_symbol = _cache.get_bars_batch(unique_symbols, timeframe): one
\* missing or stale symbol raises cache_not_ready for the whole call
RangeBatchFetch ==
    /\ bpc = "start" /\ bop = "range"
    /\ bauto => ~get_bars_batch_raises(bcache, Range(btickers))
    /\ IF get_bars_batch_raises(bcache, Range(btickers))
         THEN berror' = "cache_not_ready" /\ bpc' = "done"
         ELSE berror' = berror /\ bpc' = "loop"
    /\ UNCHANGED <<bop, btickers, bcache, bauto, bidx, bresults>>

\* one iteration of "for symbol in unique_symbols"
RangeBatchStep ==
    /\ bpc = "loop" /\ bop = "range"
    /\ bidx <= Len(btickers)
    /\ bresults' = Append(bresults, [symbol |-> btickers[bidx],
                                     result |-> RangeResult(bcache, btickers[bidx])])
    /\ bidx' = bidx + 1
    /\ UNCHANGED <<bop, btickers, bcache, bauto, bpc, berror>>

\* after the loop: no evaluated bar at all raises invalid_request, otherwise
\* the summary is returned
RangeBatchEnd ==
    /\ bpc = "loop" /\ bop = "range"
    /\ bidx > Len(btickers)
    /\ berror' = IF \E i \in 1..Len(bresults) : bresults[i].result = "evaluated"
                   THEN "" ELSE "invalid_request"
    /\ bpc' = "done"
    /\ UNCHANGED <<bop, btickers, bcache, bauto, bidx, bresults>>

-----------------------------------------------------------------------------
(* ------------------ Generic backtest: _run_strategy_on_bars ------------- *)
(* The simulation itself is run by backtesting.Backtest as the engine
   configures it: market orders placed in Strategy.next are filled by the
   broker at the open of the following bar (trade_on_close is left at its
   default), whole shares only, relative commission on entry and on exit,
   trades still open at the end are not closed (finalize_trades is left at its
   default).  Bars are indexed 1..Len(bars).                                 *)

MaxEngBars == 5      \* longest bar series explored for the generic backtest

EngPrices == {1, 2, 3}

\* bar i opens at the previous close plus gap (the first bar at its close)
EngSeries ==
    { [i \in 1..Len(cs) |->
          [t |-> i, o |-> IF i = 1 THEN cs[1] ELSE cs[i - 1] + gap, c |-> cs[i]]] :
      cs \in SeqsUpTo(EngPrices, MaxEngBars), gap \in {0, 1} }

EngStrategies ==
    { [name |-> "ma_crossover", fast |-> 1, slow |-> 2],
      [name |-> "ma_crossover", fast |-> 1, slow |-> 3],
      [name |-> "ma_crossover", fast |-> 2, slow |-> 2],
      [name |-> "ma_crossover", fast |-> 3, slow |-> 1],
      [name |-> "rsi_reversal", length |-> 2, lower |-> 30, upper |-> 70],
      [name |-> "rsi_reversal", length |-> 3, lower |-> 40, upper |-> 60],
      [name |-> "rsi_reversal", length |-> 1, lower |-> 30, upper |-> 70],
      [name |-> "buy_and_hold"] }

EngInputs ==
    [bars : EngSeries, strategy : EngStrategies, fees_bps : {0, 100},
     initial_cash : {2, 10}, include_equity_curve : BOOLEAN]

\* rolling(w).mean() of the closes at bar i is defined from bar w on; w * mean:
SmaDefined(bars, w, i) == i >= 1 /\ RollingDefined(i, w)
SmaSum(bars, w, i) == RollingSum(Closes(bars), i, w)

\* fast_ma[i] > slow_ma[i] / fast_ma[i] < slow_ma[i]; False when either one
\* is undefined (NaN)
MaAbove(bars, fast, slow, i) ==
    /\ SmaDefined(bars, fast, i) /\ SmaDefined(bars, slow, i)
    /\ SmaSum(bars, fast, i) * slow > SmaSum(bars, slow, i) * fast

MaBelow(bars, fast, slow, i) ==
    /\ SmaDefined(bars, fast, i) /\ SmaDefined(bars, slow, i)
    /\ SmaSum(bars, fast, i) * slow < SmaSum(bars, slow, i) * fast

\* backtesting.lib.crossover(a, b) at bar i: a[-2] < b[-2] and a[-1] > b[-1]
CrossUp(bars, fast, slow, i)   == MaBelow(bars, fast, slow, i - 1) /\ MaAbove(bars, fast, slow, i)
CrossDown(bars, fast, slow, i) == MaAbove(bars, fast, slow, i - 1) /\ MaBelow(bars, fast, slow, i)

\* MaCrossoverStrategy.next at bar i: the order it places, if any
MaCrossoverNext(bars, st, i, inPosition) ==
    IF CrossUp(bars, st.fast, st.slow, i)
      THEN IF ~inPosition THEN "buy" ELSE "none"
    ELSE IF CrossDown(bars, st.fast, st.slow, i)
      THEN IF inPosition THEN "close" ELSE "none"
    ELSE "none"

RECURSIVE Pow(_, _)
Pow(b, k) == IF k = 0 THEN 1 ELSE b * Pow(b, k - 1)

\* compute_rsi_series: Wilder averages of gains and losses with alpha = 1/length,
\* seeded with 0 at the first bar (delta[0] = 0).  AvgGain and AvgLoss are the
\* code's averages multiplied by length^(i-1), which leaves their ratio alone.
RECURSIVE AvgGain(_, _, _)
AvgGain(bars, length, i) ==
    IF i <= 1 THEN 0
    ELSE LET delta == bars[i].c - bars[i - 1].c
             gain == IF delta > 0 THEN delta ELSE 0
         IN Pow(length, i - 2) * gain + (length - 1) * AvgGain(bars, length, i - 1)

RECURSIVE AvgLoss(_, _, _)
AvgLoss(bars, length, i) ==
    IF i <= 1 THEN 0
    ELSE LET delta == bars[i].c - bars[i - 1].c
             loss == IF delta < 0 THEN 0 - delta ELSE 0
         IN Pow(length, i - 2) * loss + (length - 1) * AvgLoss(bars, length, i - 1)

\* rsi = 100 - 100 / (1 + rs) with rs = avg_gain / avg_loss where avg_loss # 0
\* and rs = 0 elsewhere (np.divide(..., out=zeros, where=avg_loss != 0)), as
\* the fraction num/den: 100 * gain / (gain + loss), or 0 when avg_loss = 0
Rsi(bars, length, i) ==
    LET g == AvgGain(bars, length, i)
        l == AvgLoss(bars, length, i)
    IN IF l = 0 THEN Frac(0, 1) ELSE Frac(100 * g, g + l)

RsiBelow(bars, length, i, level) ==
    LET r == Rsi(bars, length, i) IN r.num < level * r.den

RsiAbove(bars, length, i, level) ==
    LET r == Rsi(bars, length, i) IN r.num > level * r.den

\* RsiReversalStrategy.next at bar i
RsiReversalNextMutNoGuard(bars, st, i, inPosition) ==
    IF RsiBelow(bars, st.length, i, st.lower) THEN "buy"
    ELSE IF inPosition /\ RsiAbove(bars, st.length, i, st.upper) THEN "close"
    ELSE "none"
RsiReversalNext(bars, st, i, inPosition) ==
    IF ~inPosition /\ RsiBelow(bars, st.length, i, st.lower) THEN "buy"
    ELSE IF inPosition /\ RsiAbove(bars, st.length, i, st.upper) THEN "close"
    ELSE "none"

StrategyNext(bars, st, i, inPosition) ==
    IF st.name = "ma_crossover" THEN MaCrossoverNext(bars, st, i, inPosition)
    ELSE RsiReversalNext(bars, st, i, inPosition)

\* first bar the simulation loop handles: one bar after the first bar at
\* which every indicator is defined (the RSI series is defined from bar 1)
FirstSimBar(st) ==
    IF st.name = "ma_crossover" THEN Max2(st.fast, st.slow) + 1 ELSE 2

\* the validation of _run_strategy_on_bars, in its order; "" when accepted
ValidateMutCountFirst(bars, st) ==
    IF Len(bars) = 0 THEN "No bars available for backtest."
    ELSE IF st.name = "ma_crossover"
      THEN IF Len(bars) < st.slow + 2 THEN "Not enough bars for MA crossover."
           ELSE IF st.slow <= st.fast THEN "slow must be greater than fast."
           ELSE ""
    ELSE IF st.name = "rsi_reversal"
      THEN IF Len(bars) < st.length + 2 THEN "Not enough bars for RSI."
           ELSE IF st.length < 2 THEN "length must be >= 2"
           ELSE ""
    ELSE "Unsupported strategy."
Validate(bars, st) ==
    IF Len(bars) = 0 THEN "No bars available for backtest."
    ELSE IF st.name = "ma_crossover"
      THEN IF st.slow <= st.fast THEN "slow must be greater than fast."
           ELSE IF Len(bars) < st.slow + 2 THEN "Not enough bars for MA crossover."
           ELSE ""
    ELSE IF st.name = "rsi_reversal"
      THEN IF st.length < 2 THEN "length must be >= 2"
           ELSE IF Len(bars) < st.length + 2 THEN "Not enough bars for RSI."
           ELSE ""
    ELSE "Unsupported strategy."

\* _ma_signal: the comparison of the two averages at the last bar
MaSignalMutPrevBar(bars, fast, slow) ==
    IF MaAbove(bars, fast, slow, Len(bars) - 1) THEN "BUY"
    ELSE IF MaBelow(bars, fast, slow, Len(bars) - 1) THEN "SELL"
    ELSE "HOLD"
MaSignal(bars, fast, slow) ==
    IF MaAbove(bars, fast, slow, Len(bars)) THEN "BUY"
    ELSE IF MaBelow(bars, fast, slow, Len(bars)) THEN "SELL"
    ELSE "HOLD"

\* _rsi_signal: the RSI of the last bar against lower and upper (the series
\* computed from numeric closes is never NaN)
RsiSignal(bars, length, lower, upper) ==
    IF RsiBelow(bars, length, Len(bars), lower) THEN "BUY"
    ELSE IF RsiAbove(bars, length, Len(bars), upper) THEN "SELL"
    ELSE "HOLD"

SignalOf(bars, st) ==
    IF st.name = "ma_crossover" THEN MaSignal(bars, st.fast, st.slow)
    ELSE RsiSignal(bars, st.length, st.lower, st.upper)

\* fees_bps / 10000 is the commission rate; cash and equity are kept in
\* 1/10000 of a currency unit so that commissions stay integral
CashScale == 10000

\* Broker: size of a full-equity buy at price, whole shares:
\* int((margin_available * (1 - epsilon)) // (price plus commission)); the
\* (1 - epsilon) factor costs one share when the division is exact
OrderSize(cash, price, fees_bps) ==
    LET unit == price * (CashScale + fees_bps)
    IN IF cash <= 0 THEN 0
       ELSE IF cash % unit = 0 THEN (cash \div unit) - 1
       ELSE cash \div unit

\* commission charged on a fill of size shares at price
Commission(size, price, fees_bps) == size * price * fees_bps

NoTrade == [price |-> 0, bar |-> 0]

\* nothing returned (yet)
NoResult == [signal |-> "none"]

\* stats["_equity_curve"]: one row per bar of the frame; the bars before the
\* first simulated one are back-filled with the first logged equity
EquityCurveMutSimulatedOnly(bars, logged, first) ==
    [k \in 1..Len(logged) |-> [t |-> bars[first + k - 1].t, equity |-> logged[k]]]
EquityCurve(bars, logged, first) ==
    [k \in 1..Len(bars) |->
        [t |-> bars[k].t,
         equity |-> IF k < first THEN logged[1] ELSE logged[k - first + 1]]]

\* a metric value: None, NaN or the fraction num/den
Null == [kind |-> "null", num |-> 0, den |-> 1]
NaN  == [kind |-> "nan",  num |-> 0, den |-> 1]
Num(n, d) == [kind |-> "num", num |-> n, den |-> d]

\* the sign of a closed trade's ReturnPct: the price move net of the
\* commissions of its entry and its exit
ReturnPositive(tr, fees_bps) ==
    tr.Size * (tr.ExitPrice - tr.EntryPrice) * CashScale
        > Commission(tr.Size, tr.EntryPrice, fees_bps)
          + Commission(tr.Size, tr.ExitPrice, fees_bps)

\* _compute_win_rate: None for an empty trade table, else the mean of
\* ReturnPct > 0
_compute_win_rate(trades, fees_bps) ==
    IF trades = <<>> THEN Null
    ELSE Num(Cardinality({k \in 1..Len(trades) : ReturnPositive(trades[k], fees_bps)}),
             Len(trades))

\* _compute_avg_hold_bars: None for an empty trade table, else the mean of
\* ExitBar - EntryBar
_compute_avg_hold_bars(trades) ==
    IF trades = <<>> THEN Null
    ELSE Num(SumRange([k \in 1..Len(trades) |-> trades[k].ExitBar - trades[k].EntryBar],
                      1, Len(trades)),
             Len(trades))

\* stats["Win Rate [%]"] / 100 as the backtest statistics report it: NaN
\* without trades
StatsWinRate(trades, fees_bps) ==
    IF trades = <<>> THEN NaN ELSE _compute_win_rate(trades, fees_bps)

\* the winRate of the Metrics: _compute_win_rate, or when that is None the
\* statistic "Win Rate [%]" (always present) divided by 100
WinRateOf(trades, fees_bps) ==
    IF _compute_win_rate(trades, fees_bps) = Null
      THEN StatsWinRate(trades, fees_bps)
      ELSE _compute_win_rate(trades, fees_bps)

\* the avgHoldBars of the Metrics: _compute_avg_hold_bars, or when that is
\* None the statistic "Average Trade Duration", a key the statistics do not
\* carry, hence None
AvgHoldBarsOf(trades) == _compute_avg_hold_bars(trades)

EngineInit ==
    /\ eng \in EngInputs
    /\ epc = "start"
    /\ ei = 0
    /\ ecash = 0
    /\ eshares = 0
    /\ eentry = NoTrade
    /\ eorder = "none"
    /\ etrades = <<>>
    /\ efills = <<>>
    /\ eequity = <<>>
    /\ eresult = NoResult
    /\ eerror = ""

EngineIdle ==
    /\ eng = [bars |-> <<>>]
    /\ epc = "idle"
    /\ ei = 0
    /\ ecash = 0
    /\ eshares = 0
    /\ eentry = NoTrade
    /\ eorder = "none"
    /\ etrades = <<>>
    /\ efills = <<>>
    /\ eequity = <<>>
    /\ eresult = NoResult
    /\ eerror = ""

\* _run_strategy_on_bars up to Backtest(...): a failed check raises ApiError
EngineReject ==
    /\ epc = "start"
    /\ Validate(eng.bars, eng.strategy) # ""
    /\ eerror' = Validate(eng.bars, eng.strategy)
    /\ epc' = "done"
    /\ UNCHANGED <<eng, ei, ecash, eshares, eentry, eorder, etrades, efills,
                   eequity, eresult>>

\* Backtest(df, Strategy, cash=initial_cash, commission=fee_rate,
\* exclusive_orders=True) and the start of bt.run
EngineStart ==
    /\ epc = "start"
    /\ Validate(eng.bars, eng.strategy) = ""
    /\ epc' = "run"
    /\ ei' = FirstSimBar(eng.strategy)
    /\ ecash' = eng.initial_cash * CashScale
    /\ UNCHANGED <<eng, eshares, eentry, eorder, etrades, efills, eequity,
                   eresult, eerror>>

\* one pass of the simulation loop at bar ei: the broker fills the order left
\* by the previous bar at this bar's open (exclusive_orders: a new buy first
\* closes whatever trade is open) and logs the equity, then Strategy.next
\* decides on this bar's close
EngineBar ==
    /\ epc = "run"
    /\ ei <= Len(eng.bars)
    /\ LET bar == eng.bars[ei]
           fee == eng.fees_bps
           closes == eorder \in {"close", "buy"} /\ eshares > 0
           cash0 == IF closes
                      THEN ecash - Commission(eshares, bar.o, fee)
                                 + eshares * (bar.o - eentry.price) * CashScale
                      ELSE ecash
           size == OrderSize(cash0, bar.o, fee)
           buys == eorder = "buy" /\ size > 0
           cash1 == IF buys THEN cash0 - Commission(size, bar.o, fee) ELSE cash0
           shares1 == IF buys THEN size ELSE IF closes THEN 0 ELSE eshares
           entry1 == IF buys THEN [price |-> bar.o, bar |-> ei]
                     ELSE IF closes THEN NoTrade ELSE eentry
           equity1 == cash1 + shares1 * (bar.c - entry1.price) * CashScale
           fills0 == IF closes THEN Append(efills, "exit") ELSE efills
       IN /\ ecash' = cash1
          /\ eshares' = shares1
          /\ eentry' = entry1
          /\ etrades' = IF closes
                          THEN Append(etrades,
                                 [EntryBar |-> eentry.bar, ExitBar |-> ei,
                                  EntryPrice |-> eentry.price, ExitPrice |-> bar.o,
                                  Size |-> eshares])
                          ELSE etrades
          /\ efills' = IF buys THEN Append(fills0, "entry") ELSE fills0
          /\ eequity' = Append(eequity, equity1)
          /\ eorder' = StrategyNext(eng.bars, eng.strategy, ei, shares1 # 0)
    /\ ei' = ei + 1
    /\ UNCHANGED <<eng, epc, eresult, eerror>>

\* the end of bt.run and _build_result_from_stats: open trades stay open and
\* are not recorded; the result carries the signal of the last bar
EngineFinish ==
    /\ epc = "run"
    /\ ei > Len(eng.bars)
    /\ eresult' =
         [signal |-> SignalOf(eng.bars, eng.strategy),
          as_of |-> eng.bars[Len(eng.bars)].t,
          tradeCount |-> Len(etrades),
          winRate |-> WinRateOf(etrades, eng.fees_bps),
          avgHoldBars |-> AvgHoldBarsOf(etrades),
          has_curve |-> eng.include_equity_curve,
          equity_curve |->
              IF eng.include_equity_curve
                THEN EquityCurve(eng.bars, eequity, FirstSimBar(eng.strategy))
                ELSE <<>>]
    /\ epc' = "done"
    /\ UNCHANGED <<eng, ei, ecash, eshares, eentry, eorder, etrades, efills,
                   eequity, eerror>>

-----------------------------------------------------------------------------
(* ------------- As-of detector: _detect_low_volume_pullback -------------- *)
(* Bars are indexed 1..Len(bars); an index the code calls idx is idx + 1
   here, so end_idx ranges over 0..Len(bars)+1 with 0 and Len(bars)+1 out of
   range.                                                                    *)

\* _trend_ok(idx)
_trend_ok(bars, p, idx) ==
    LET c == Closes(bars)
        f == p.fast_ma
        s == p.slow_ma
        l == p.long_ma
        slope_idx == idx - p.long_ma_slope_window
        pct == p.long_ma_slope_min_pct
    IN IF ~(WindowDefined(bars, idx, f) /\ WindowDefined(bars, idx, s)
             /\ WindowDefined(bars, idx, l))
         THEN FALSE
       ELSE IF c[idx] * f <= RollingSum(c, idx, f) \/ c[idx] * s <= RollingSum(c, idx, s)
         THEN FALSE
       ELSE IF RollingSum(c, idx, f) * s <= RollingSum(c, idx, s) * f
         THEN FALSE
       ELSE IF slope_idx < 1 \/ ~WindowDefined(bars, slope_idx, l)
         THEN FALSE
       ELSE RollingSum(c, idx, l) * pct.den
               > RollingSum(c, slope_idx, l) * (pct.den + pct.num)

\* the body of the detector's loop for one idx: TRUE when no "continue" is
\* taken, i.e. the bar is appended to hits
BarIsHitMutStrictRatio(bars, p, idx) ==
    LET b == bars[idx]
        w == p.vol_avg_window
        volSum == SumRange(Volumes(bars), idx - w, idx - 1)
    IN /\ idx - 1 >= w
       /\ _trend_ok(bars, p, idx)
       /\ ~(b.c >= b.o \/ ~OverOpenDenomGeq(Abs(b.c - b.o), b.o, p.min_body_pct, p.eps))
       /\ (p.min_range_pct.set =>
             OverOpenDenomGeq(b.h - b.l, b.o, p.min_range_pct, p.eps))
       /\ volSum > 0
       /\ b.v > 0
       /\ ~(b.v * w * p.vol_ratio_max.den >= p.vol_ratio_max.num * volSum)
BarIsHitMutLookahead(bars, p, idx) ==
    LET b == bars[idx]
        w == p.vol_avg_window
        volSum == SumRange(Volumes(bars), idx - w, idx - 1)
                    + (IF idx < Len(bars) THEN bars[idx + 1].v ELSE 0)
    IN /\ idx - 1 >= w
       /\ _trend_ok(bars, p, idx)
       /\ ~(b.c >= b.o \/ ~OverOpenDenomGeq(Abs(b.c - b.o), b.o, p.min_body_pct, p.eps))
       /\ (p.min_range_pct.set =>
             OverOpenDenomGeq(b.h - b.l, b.o, p.min_range_pct, p.eps))
       /\ volSum > 0
       /\ b.v > 0
       /\ ~(b.v * w * p.vol_ratio_max.den > p.vol_ratio_max.num * volSum)
BarIsHit(bars, p, idx) ==
    LET b == bars[idx]
        w == p.vol_avg_window
        volSum == SumRange(Volumes(bars), idx - w, idx - 1)
    IN /\ idx - 1 >= w
       /\ _trend_ok(bars, p, idx)
       /\ ~(b.c >= b.o \/ ~OverOpenDenomGeq(Abs(b.c - b.o), b.o, p.min_body_pct, p.eps))
       /\ (p.min_range_pct.set =>
             OverOpenDenomGeq(b.h - b.l, b.o, p.min_range_pct, p.eps))
       /\ volSum > 0
       /\ b.v > 0
       /\ ~(b.v * w * p.vol_ratio_max.den > p.vol_ratio_max.num * volSum)

\* the dict appended to hits for a hit bar (opens are positive there, since
\* 0 < close < open is what the explored bars give a bearish candle)
HitRecord(bars, p, idx) ==
    [bar_index |-> idx,
     as_of |-> bars[idx].t,
     vol_ratio |-> Frac(bars[idx].v * p.vol_avg_window,
                        SumRange(Volumes(bars), idx - p.vol_avg_window, idx - 1)),
     body_pct |-> Frac(Abs(bars[idx].c - bars[idx].o), bars[idx].o)]

\* for idx in range(end_idx, lookback_start - 1, -1): the hits, most recent first
RECURSIVE HitsDown(_, _, _, _)
HitsDownMutFirstOnly(bars, p, idx, lookback_start) ==
    LET found == {i \in lookback_start..idx : BarIsHit(bars, p, i)}
    IN IF found = {} THEN <<>> ELSE <<HitRecord(bars, p, SetMax(found))>>
HitsDown(bars, p, idx, lookback_start) ==
    IF idx < lookback_start THEN <<>>
    ELSE (IF BarIsHit(bars, p, idx) THEN <<HitRecord(bars, p, idx)>> ELSE <<>>)
         \o HitsDown(bars, p, idx - 1, lookback_start)

NoHit == [bar_index |-> 0, as_of |-> 0, vol_ratio |-> Frac(0, 1), body_pct |-> Frac(0, 1)]

\* a returned dict: keys is the set of keys it carries, a field whose key is
\* not carried holds a filler
DetectionError(err) ==
    [keys |-> {"triggered", "error"}, triggered |-> FALSE, error |-> err,
     hits |-> <<>>, top |-> NoHit]

DetectMutRequiredLen(bars, p, end_idx) ==
    IF Len(bars) = 0 THEN DetectionError("no_bars")
    ELSE IF end_idx < 1 \/ end_idx > Len(bars) THEN DetectionError("invalid_asof")
    ELSE IF end_idx <= required_len(p) THEN DetectionError("insufficient_bars")
    ELSE LET lookback_start == Max2(1, end_idx - p.lookback_bars + 1)
             hits == HitsDown(bars, p, end_idx, lookback_start)
         IN IF hits = <<>>
              THEN [keys |-> {"triggered", "hits"}, triggered |-> FALSE, error |-> "",
                    hits |-> <<>>, top |-> NoHit]
              ELSE [keys |-> {"triggered", "bar_index", "as_of", "vol_ratio",
                              "body_pct", "hits"},
                    triggered |-> TRUE, error |-> "", hits |-> hits, top |-> hits[1]]
_detect_low_volume_pullback(bars, p, end_idx) ==
    IF Len(bars) = 0 THEN DetectionError("no_bars")
    ELSE IF end_idx < 1 \/ end_idx > Len(bars) THEN DetectionError("invalid_asof")
    ELSE IF end_idx < required_len(p) THEN DetectionError("insufficient_bars")
    ELSE LET lookback_start == Max2(1, end_idx - p.lookback_bars + 1)
             hits == HitsDown(bars, p, end_idx, lookback_start)
         IN IF hits = <<>>
              THEN [keys |-> {"triggered", "hits"}, triggered |-> FALSE, error |-> "",
                    hits |-> <<>>, top |-> NoHit]
              ELSE [keys |-> {"triggered", "bar_index", "as_of", "vol_ratio",
                              "body_pct", "hits"},
                    triggered |-> TRUE, error |-> "", hits |-> hits, top |-> hits[1]]

(* ------- Single-signal backtest: backtest_low_volume_pullback_on_df ------ *)

NoPrice == [nan |-> TRUE, value |-> 0]
Price(x) == [nan |-> FALSE, value |-> x]

BacktestError(err, end_idx, keys) ==
    [keys |-> keys, triggered |-> FALSE, error |-> err, end_idx |-> end_idx,
     signal_idx |-> 0, entry_price |-> NoPrice, forward |-> <<>>]

\* the forward list: for day in 1..horizon, stopping at the end of the frame
ForwardMutFromEntryBar(bars, sig, entry_bar, entry_price, horizon) ==
    [day \in 1..Max2(0, Min2(horizon, Len(bars) - entry_bar)) |->
        [day |-> day, ts |-> bars[entry_bar + day].t, close |-> bars[entry_bar + day].c,
         ret |-> IF entry_price # 0
                   THEN Frac(bars[entry_bar + day].c - entry_price, entry_price)
                   ELSE Frac(0, 1)]]
Forward(bars, sig, entry_bar, entry_price, horizon) ==
    [day \in 1..Max2(0, Min2(horizon, Len(bars) - sig)) |->
        [day |-> day, ts |-> bars[sig + day].t, close |-> bars[sig + day].c,
         ret |-> IF entry_price # 0
                   THEN Frac(bars[sig + day].c - entry_price, entry_price)
                   ELSE Frac(0, 1)]]

\* the index of the bar whose price is the entry price: the signal bar under
\* "close", the bar after it under "next_open"
EntryBarMutSignalBar(sig, entry_execution) == sig
EntryBar(sig, entry_execution) ==
    IF entry_execution = "close" THEN sig ELSE sig + 1

backtest_low_volume_pullback_on_df(bars, p, cutoff_dt, horizon_bars, entry_execution) ==
    IF Len(bars) = 0
      THEN BacktestError("no_bars", 0, {"triggered", "error"})
    ELSE LET endPos == end_pos(bars, cutoff_dt)
             detection == _detect_low_volume_pullback(bars, p, endPos)
             endKeys == {"triggered", "error", "end_ts", "end_idx"}
         IN IF endPos < 1
              THEN BacktestError("asof_out_of_range", 0, {"triggered", "error"})
            ELSE IF ~detection.triggered
              THEN BacktestError(IF "error" \in detection.keys THEN detection.error
                                 ELSE "None", endPos, endKeys)
            ELSE LET sig == detection.hits[1].bar_index
                     entry_bar == EntryBar(sig, entry_execution)
                     fullKeys == {"triggered", "end_ts", "end_idx", "signal_idx",
                                  "signal_ts", "entry_price", "vol_ratio",
                                  "body_pct", "forward"}
                 IN IF entry_execution \notin {"close", "next_open"}
                      THEN BacktestError("invalid_entry_execution", endPos, endKeys)
                    ELSE IF entry_bar > Len(bars)
                      THEN [keys |-> fullKeys \cup {"error"}, triggered |-> TRUE,
                            error |-> "no_entry_bar", end_idx |-> endPos,
                            signal_idx |-> sig, entry_price |-> NoPrice,
                            forward |-> <<>>]
                    ELSE LET entry_price ==
                                 IF entry_execution = "close"
                                   THEN bars[entry_bar].c ELSE bars[entry_bar].o
                         IN [keys |-> fullKeys, triggered |-> TRUE, error |-> "",
                             end_idx |-> endPos, signal_idx |-> sig,
                             entry_price |-> Price(entry_price),
                             forward |-> Forward(bars, sig, entry_bar,
                                                 entry_price, horizon_bars)]

\* ---- inputs explored ----------------------------------------------------

MaxDetBars == 5      \* longest bar series explored for the detector

\* bar with close c, open = high = c + body, low = c and volume v
MkDetBar(t, c, body, v) ==
    [t |-> t, o |-> c + body, h |-> c + body, l |-> c, c |-> c, v |-> v, nan |-> "none"]

\* two rising warm-up bars, then up to MaxDetBars - 2 free bars
DetWarmUp == <<[c |-> 94, body |-> 0, v |-> 1000], [c |-> 96, body |-> 0, v |-> 1000]>>

DetSeries(bodies, vols) ==
    {<<>>} \cup
    { [i \in 1..(2 + Len(tail)) |->
          LET b == (DetWarmUp \o tail)[i] IN MkDetBar(i, b.c, b.body, b.v)] :
      tail \in SeqsUpTo([c : {98, 100}, body : bodies, v : vols], MaxDetBars - 2) }

\* body 2 on open 100 is exactly min_body_pct, volume 500 after two bars of
\* 1000 is exactly vol_ratio_max
DetParams(lb, withRange) ==
    [fast_ma |-> 2, slow_ma |-> 3, long_ma |-> 2,
     long_ma_slope_window |-> 1, long_ma_slope_min_pct |-> Frac(0, 1),
     vol_avg_window |-> 2, vol_ratio_max |-> Frac(1, 2),
     min_body_pct |-> Frac(1, 50),
     min_range_pct |-> IF withRange THEN [set |-> TRUE, num |-> 1, den |-> 40]
                       ELSE [set |-> FALSE, num |-> 0, den |-> 1],
     lookback_bars |-> lb, eps |-> EpsDefault]

\* every series at the last bar; the core series at every end index
DetectInputs ==
    [bars : DetSeries({0, 2, 3}, {500, 1000}),
     params : {DetParams(lb, FALSE) : lb \in {1, MaxLookback}} \cup {DetParams(1, TRUE)},
     end_idx : {MaxDetBars + 2}]
    \cup [bars : DetSeries({0, 3}, {250, 500}),
          params : {DetParams(lb, FALSE) : lb \in {1, MaxLookback + 1}},
          end_idx : 0..(MaxDetBars + 1)]

\* every series with the cutoff after the last bar; the core series under
\* early and late cutoffs, every horizon kind and entry execution
BacktestInputs ==
    [bars : DetSeries({0, 2, 3}, {500, 1000}),
     params : {DetParams(1, FALSE)},
     cutoff_dt : {MaxDetBars + 1}, horizon_bars : {MaxHorizon},
     entry_execution : {"close", "next_open"}]
    \cup [bars : DetSeries({0, 3}, {250, 500}),
          params : {DetParams(lb, FALSE) : lb \in {1, MaxLookback}},
          cutoff_dt : {0, 3, MaxDetBars}, horizon_bars : {0, 1, MaxHorizon + 1},
          entry_execution : EntryExecutions]

NoDict == [keys |-> {}]

DetInit ==
    /\ \/ dop = "detect" /\ din \in DetectInputs
       \/ dop = "backtest" /\ din \in BacktestInputs
    /\ dpc = "start"
    /\ dres = NoDict

DetIdle ==
    /\ dop = "none"
    /\ din = [bars |-> <<>>]
    /\ dpc = "idle"
    /\ dres = NoDict

\* _detect_low_volume_pullback(df, params, end_idx); end_idx = None (here
\* MaxDetBars + 2) stands for the last bar
DetectCall ==
    /\ dpc = "start" /\ dop = "detect"
    /\ dres' = _detect_low_volume_pullback(din.bars, din.params,
                  IF din.end_idx = MaxDetBars + 2 THEN Len(din.bars) ELSE din.end_idx)
    /\ dpc' = "done"
    /\ UNCHANGED <<dop, din>>

\* backtest_low_volume_pullback_on_df(df, params, cutoff_dt, horizon_bars,
\* entry_execution)
BacktestCall ==
    /\ dpc = "start" /\ dop = "backtest"
    /\ dres' = backtest_low_volume_pullback_on_df(din.bars, din.params, din.cutoff_dt,
                                                  din.horizon_bars, din.entry_execution)
    /\ dpc' = "done"
    /\ UNCHANGED <<dop, din>>

-----------------------------------------------------------------------------
(* ---- Universe-level range backtest: the aggregation over the symbols ---- *)
(* low_volume_pullback_backtest_range from the symbol loop on.  What the
   per-symbol call returned is an input: no bars at all, an error dict, or
   counts as backtest_low_volume_pullback_range_on_df produces them.         *)

MaxAggTickers == 2   \* most symbols aggregated

AggHorizons == {0, 1, 2}

\* a forward sample of one event: whether it is a win and its bucket; a
\* return > 0 lies in an up bucket, a return <= 0 never in up_gt_5
SampleKinds ==
    { [win |-> 1, bucket |-> "up_0_5"], [win |-> 1, bucket |-> "up_gt_5"],
      [win |-> 0, bucket |-> "down_gt_5"], [win |-> 0, bucket |-> "down_0_5"],
      [win |-> 0, bucket |-> "up_0_5"] }

\* the dict of counts of a symbol with at most one event, sampled on the
\* first Len(days) forward days
CountsOf(horizon, evaluated, days) ==
    [kind |-> "counts",
     evaluated_bars |-> evaluated,
     triggered_events |-> IF Len(days) > 0 THEN 1 ELSE 0,
     sample_count_by_day |-> [d \in 1..horizon |-> IF d <= Len(days) THEN 1 ELSE 0],
     win_count_by_day |-> [d \in 1..horizon |-> IF d <= Len(days) THEN days[d].win ELSE 0],
     bucket_count_by_day |->
        [d \in 1..horizon |->
            [b \in BucketNames |-> IF d <= Len(days) /\ days[d].bucket = b THEN 1 ELSE 0]]]

NoBars == [kind |-> "no_bars"]

ErrorDict(err) == [kind |-> "error", error |-> err]

\* what one symbol can yield under a horizon: horizon < 1 makes every
\* per-symbol call return invalid_horizon
SymbolOutcomes(horizon) ==
    IF horizon < 1 THEN {NoBars, ErrorDict("invalid_horizon")}
    ELSE {NoBars, CountsOf(horizon, 0, <<>>), CountsOf(horizon, 2, <<>>)}
         \cup {CountsOf(horizon, 2, days) : days \in SeqsUpTo(SampleKinds, horizon) \ {<<>>}}

AggInputs ==
    UNION { [horizon : {h},
             outcomes : SeqsUpTo(SymbolOutcomes(h), MaxAggTickers) \ {<<>>}] :
            h \in AggHorizons }

ZeroTotals(horizon) ==
    [evaluated_bars_total |-> 0, triggered_events_total |-> 0,
     sample_count_by_day |-> ZeroByDay(horizon),
     win_count_by_day |-> ZeroByDay(horizon),
     bucket_count_by_day |-> ZeroBuckets(horizon)]

NoSummary == [universeSize |-> 0]

AggInit ==
    /\ ain \in AggInputs
    /\ apc = "loop"
    /\ aidx = 1
    /\ atotals = ZeroTotals(ain.horizon)
    /\ asummary = NoSummary
    /\ aerror = ""

AggIdle ==
    /\ ain = [horizon |-> 0, outcomes |-> <<>>]
    /\ apc = "idle"
    /\ aidx = 1
    /\ atotals = ZeroTotals(0)
    /\ asummary = NoSummary
    /\ aerror = ""

\* the body of "for symbol in unique_symbols" after the per-symbol call: a
\* symbol without bars or with an error dict is passed over, the counts of
\* any other are added to the totals
AddOutcome(totals, bt, horizon) ==
    IF bt.kind # "counts" THEN totals
    ELSE [evaluated_bars_total |-> totals.evaluated_bars_total + bt.evaluated_bars,
          triggered_events_total |-> totals.triggered_events_total + bt.triggered_events,
          sample_count_by_day |->
             [d \in 1..horizon |-> totals.sample_count_by_day[d] + bt.sample_count_by_day[d]],
          win_count_by_day |->
             [d \in 1..horizon |-> totals.win_count_by_day[d] + bt.win_count_by_day[d]],
          bucket_count_by_day |->
             [d \in 1..horizon |->
                [b \in BucketNames |->
                    totals.bucket_count_by_day[d][b] + bt.bucket_count_by_day[d][b]]]]

AggStep ==
    /\ apc = "loop"
    /\ aidx <= Len(ain.outcomes)
    /\ atotals' = AddOutcome(atotals, ain.outcomes[aidx], ain.horizon)
    /\ aidx' = aidx + 1
    /\ UNCHANGED <<ain, apc, asummary, aerror>>

\* the days that get a rate: those with a positive sample count
RatedDaysMutAll(totals, horizon) == 1..horizon
RatedDays(totals, horizon) ==
    {d \in 1..horizon : totals.sample_count_by_day[d] > 0}

\* win_rate_by_day and bucket_rate_by_day
RangeSummary(totals, horizon, universeSize) ==
    LET rated == RatedDays(totals, horizon)
    IN [universeSize |-> universeSize,
        evaluatedBars |-> totals.evaluated_bars_total,
        triggeredEvents |-> totals.triggered_events_total,
        sampleCountByDay |-> totals.sample_count_by_day,
        winRateByDay |->
           [d \in rated |-> Frac(totals.win_count_by_day[d], totals.sample_count_by_day[d])],
        bucketRateByDay |->
           [d \in rated |->
              [b \in BucketNames |->
                  Frac(totals.bucket_count_by_day[d][b], totals.sample_count_by_day[d])]]]

\* after the loop: no evaluated bar raises invalid_request, otherwise the
\* rates are derived and the summary returned
AggFinish ==
    /\ apc = "loop"
    /\ aidx > Len(ain.outcomes)
    /\ IF atotals.evaluated_bars_total <= 0
         THEN aerror' = "invalid_request" /\ UNCHANGED asummary
         ELSE /\ asummary' = RangeSummary(atotals, ain.horizon, Len(ain.outcomes))
              /\ UNCHANGED aerror
    /\ apc' = "done"
    /\ UNCHANGED <<ain, aidx, atotals>>

-----------------------------------------------------------------------------
(* ------------- SMA series of the repository: _compute_sma_series -------- *)
(* A value is a number or None; an output is None or running / window, kept
   as the fraction.  Lists are indexed 1..Len.                               *)

MaxSmaLen == 4       \* longest list of values explored

SmaValues == {Null, Num(1, 1), Num(2, 1), Num(4, 1)}

SmaWindows == {0 - 1, 0, 1, 2, 3}

SmaInputs == [values : SeqsUpTo(SmaValues, MaxSmaLen), window : SmaWindows]

SmaInit ==
    /\ sin \in SmaInputs
    /\ spc = "start"
    /\ sidx = 1
    /\ srunning = 0
    /\ squeue = <<>>
    /\ soutput = <<>>

SmaIdle ==
    /\ sin = [values |-> <<>>, window |-> 0]
    /\ spc = "idle"
    /\ sidx = 1
    /\ srunning = 0
    /\ squeue = <<>>
    /\ soutput = <<>>

\* window <= 0: return [None for _ in values]
SmaNoWindow ==
    /\ spc = "start"
    /\ sin.window <= 0
    /\ soutput' = [i \in 1..Len(sin.values) |-> Null]
    /\ spc' = "done"
    /\ UNCHANGED <<sin, sidx, srunning, squeue>>

\* output = [None] * len(values); running = 0.0; queue = deque()
SmaBegin ==
    /\ spc = "start"
    /\ sin.window > 0
    /\ soutput' = [i \in 1..Len(sin.values) |-> Null]
    /\ spc' = "loop"
    /\ UNCHANGED <<sin, sidx, srunning, squeue>>

\* the body of the loop for one value: the running sum, the queue and the
\* output of this position afterwards
SmaIterMutNoRestart(running, queue, value, window) ==
    IF value.kind # "num"
      THEN [running |-> running, queue |-> queue, out |-> Null]
    ELSE LET q1 == Append(queue, value.num)
             r1 == running + value.num
             drop == Len(q1) > window
             q2 == IF drop THEN Tail(q1) ELSE q1
             r2 == IF drop THEN r1 - Head(q1) ELSE r1
         IN [running |-> r2, queue |-> q2,
             out |-> IF Len(q2) = window THEN Num(r2, window) ELSE Null]
SmaIter(running, queue, value, window) ==
    IF value.kind # "num"
      THEN [running |-> 0, queue |-> <<>>, out |-> Null]
    ELSE LET q1 == Append(queue, value.num)
             r1 == running + value.num
             drop == Len(q1) > window
             q2 == IF drop THEN Tail(q1) ELSE q1
             r2 == IF drop THEN r1 - Head(q1) ELSE r1
         IN [running |-> r2, queue |-> q2,
             out |-> IF Len(q2) = window THEN Num(r2, window) ELSE Null]

\* one iteration of "for idx, value in enumerate(values)"
SmaStep ==
    /\ spc = "loop"
    /\ sidx <= Len(sin.values)
    /\ LET it == SmaIter(srunning, squeue, sin.values[sidx], sin.window)
       IN /\ srunning' = it.running
          /\ squeue' = it.queue
          /\ soutput' = [soutput EXCEPT ![sidx] = it.out]
    /\ sidx' = sidx + 1
    /\ UNCHANGED <<sin, spc>>

\* return output
SmaReturn ==
    /\ spc = "loop"
    /\ sidx > Len(sin.values)
    /\ spc' = "done"
    /\ UNCHANGED <<sin, sidx, srunning, squeue, soutput>>

-----------------------------------------------------------------------------
(* ------------------- run_backtest: the loop over tickers ---------------- *)

MaxReqTickers == 3   \* longest request.tickers explored

\* ALL_TICKERS and a ticker outside it
KnownTickers == {"T1", "T2"}
RequestTickers == KnownTickers \cup {"TX"}

\* bars a ticker's cache file can hold: none, too few for the strategy, enough
BarsOfLen(n) == [i \in 1..n |-> [t |-> i, o |-> i, c |-> i]]
CachedBars == [empty |-> BarsOfLen(0), short |-> BarsOfLen(3), ok |-> BarsOfLen(4)]

\* a valid strategy and one that fails its parameter check
RequestStrategies ==
    { [name |-> "ma_crossover", fast |-> 1, slow |-> 2],
      [name |-> "ma_crossover", fast |-> 2, slow |-> 2] }

RunInputs ==
    [mode : {"independent", "portfolio"},
     timeframe_known : BOOLEAN,
     tickers : SeqsUpTo(RequestTickers, MaxReqTickers) \ {<<>>},
     strategy : RequestStrategies,
     cache : [KnownTickers -> {"not_ready", "empty", "short", "ok"}]]

NoResponse == [returned |-> FALSE, results |-> <<>>]

RunInit ==
    /\ qin \in RunInputs
    /\ qpc = "start"
    /\ qidx = 1
    /\ qreads = <<>>
    /\ qresults = <<>>
    /\ qresponse = NoResponse
    /\ qerror = ""

RunIdle ==
    /\ qin = [tickers |-> <<>>]
    /\ qpc = "idle"
    /\ qidx = 1
    /\ qreads = <<>>
    /\ qresults = <<>>
    /\ qresponse = NoResponse
    /\ qerror = ""

\* the checks of the request, in their order; "" when it passes
RequestErrorMutUnknownFirst(r) ==
    IF r.mode # "independent" THEN "Only independent mode is supported in MVP."
    ELSE IF \E i \in 1..Len(r.tickers) : r.tickers[i] \notin KnownTickers
      THEN "Unknown ticker in request."
    ELSE IF ~r.timeframe_known THEN "Timeframe not supported."
    ELSE ""
RequestError(r) ==
    IF r.mode # "independent" THEN "Only independent mode is supported in MVP."
    ELSE IF ~r.timeframe_known THEN "Timeframe not supported."
    ELSE IF \E i \in 1..Len(r.tickers) : r.tickers[i] \notin KnownTickers
      THEN "Unknown ticker in request."
    ELSE ""

\* cache.get_bars followed by _run_strategy_on_bars for one ticker: the error
\* raised, "" when the ticker gets a result
TickerError(r, ticker) ==
    IF r.cache[ticker] = "not_ready" THEN "cache_not_ready"
    ELSE Validate(CachedBars[r.cache[ticker]], r.strategy)

RunReject ==
    /\ qpc = "start"
    /\ RequestError(qin) # ""
    /\ qerror' = RequestError(qin)
    /\ qpc' = "done"
    /\ UNCHANGED <<qin, qidx, qreads, qresults, qresponse>>

RunBegin ==
    /\ qpc = "start"
    /\ RequestError(qin) = ""
    /\ qpc' = "loop"
    /\ UNCHANGED <<qin, qidx, qreads, qresults, qresponse, qerror>>

\* one iteration of "for ticker in request.tickers": an error leaves the
\* function, otherwise results[ticker] is set
RunTicker ==
    /\ qpc = "loop"
    /\ qidx <= Len(qin.tickers)
    /\ LET ticker == qin.tickers[qidx]
           err == TickerError(qin, ticker)
       IN /\ qreads' = Append(qreads, ticker)
          /\ IF err # ""
               THEN /\ qerror' = err
                    /\ qpc' = "done"
                    /\ UNCHANGED <<qidx, qresults>>
               ELSE /\ qresults' =
                         [t \in DOMAIN qresults \cup {ticker} |->
                             IF t = ticker
                               THEN SignalOf(CachedBars[qin.cache[ticker]], qin.strategy)
                               ELSE qresults[t]]
                    /\ qidx' = qidx + 1
                    /\ UNCHANGED <<qpc, qerror>>
    /\ UNCHANGED <<qin, qresponse>>

\* return BacktestResponse(..., results=results)
RunReturn ==
    /\ qpc = "loop"
    /\ qidx > Len(qin.tickers)
    /\ qresponse' = [returned |-> TRUE, results |-> qresults]
    /\ qpc' = "done"
    /\ UNCHANGED <<qin, qidx, qreads, qresults, qerror>>

-----------------------------------------------------------------------------
(* ------------------------- LlmProvider.complete ------------------------- *)

MaxRetries == 2      \* largest config.max_retries explored

\* what one httpx.post and the handling of its response can come to: a body
\* with content; a status _should_retry names; another error status
\* (raise_for_status); a timeout or transport error; a body that is no JSON
AttemptOutcomes == {"ok", "retryable_status", "http_error", "timeout", "bad_body"}

LlmInputs == [available : BOOLEAN, max_retries : 0..MaxRetries]

NoContent == [attempt |-> 0]

LlmInit ==
    /\ lin \in LlmInputs
    /\ lpc = "start"
    /\ lattempt = 0
    /\ lhistory = <<>>
    /\ lsleeps = <<>>
    /\ lresult = NoContent
    /\ lerror = ""

LlmIdle ==
    /\ lin = [available |-> FALSE, max_retries |-> 0]
    /\ lpc = "idle"
    /\ lattempt = 0
    /\ lhistory = <<>>
    /\ lsleeps = <<>>
    /\ lresult = NoContent
    /\ lerror = ""

\* if not self.config.available(): raise llm_not_configured
LlmNotConfigured ==
    /\ lpc = "start"
    /\ ~lin.available
    /\ lerror' = "llm_not_configured"
    /\ lpc' = "done"
    /\ UNCHANGED <<lin, lattempt, lhistory, lsleeps, lresult>>

\* url, payload and headers are built; the loop starts at attempt 0
LlmBegin ==
    /\ lpc = "start"
    /\ lin.available
    /\ lpc' = "loop"
    /\ UNCHANGED <<lin, lattempt, lhistory, lsleeps, lresult, lerror>>

\* the except clause: every exception of the try block is caught; the loop
\* is left at the last attempt, otherwise the pause is slept
AfterFailureMutHttpErrorFatal(outcome, attempt, max_retries) ==
    IF outcome = "http_error" \/ attempt >= max_retries THEN "break" ELSE "sleep"
AfterFailure(outcome, attempt, max_retries) ==
    IF attempt >= max_retries THEN "break" ELSE "sleep"

\* one iteration of "for attempt in range(max_retries + 1)": the post, then
\* the return of the content or the except clause
LlmAttempt ==
    /\ lpc = "loop"
    /\ lattempt <= lin.max_retries
    /\ \E outcome \in AttemptOutcomes :
          /\ lhistory' = Append(lhistory, outcome)
          /\ IF outcome = "ok"
               THEN /\ lresult' = [attempt |-> lattempt + 1]
                    /\ lpc' = "done"
                    /\ UNCHANGED <<lattempt, lsleeps>>
             ELSE IF AfterFailure(outcome, lattempt, lin.max_retries) = "break"
               THEN /\ lpc' = "failed"
                    /\ UNCHANGED <<lattempt, lsleeps, lresult>>
             ELSE /\ lsleeps' = Append(lsleeps, 15 * (lattempt + 1))
                  /\ lattempt' = lattempt + 1
                  /\ UNCHANGED <<lpc, lresult>>
    /\ UNCHANGED <<lin, lerror>>

\* after the loop: raise ApiError(502, llm_error)
LlmRaise ==
    /\ lpc = "failed"
    /\ lerror' = "llm_error"
    /\ lpc' = "done"
    /\ UNCHANGED <<lin, lattempt, lhistory, lsleeps, lresult>>

-----------------------------------------------------------------------------
(* -------------------------- MarketCache.refresh -------------------------- *)
(* The state of a manifest entry is "none" (no entry), "fresh" (every
   timeframe summarised, fetchedAt within every TTL), "stale" (fetchedAt
   unreadable or too old) or "new" (written by this call, hence fresh).      *)

MaxRefresh == 2      \* longest list of tickers explored

CacheTickers == {"T1", "T2"}

RefreshTimeframes == <<"tfA", "tfB">>

\* what the cache holds of a ticker before the call: the state of its manifest
\* entry and whether its files exist
HeldStates ==
    { [entry |-> "none", files |-> FALSE], [entry |-> "fresh", files |-> TRUE],
      [entry |-> "fresh", files |-> FALSE], [entry |-> "stale", files |-> TRUE] }

RefreshInputs ==
    [tickers : SeqsUpTo(CacheTickers, MaxRefresh) \ {<<>>},
     held : [CacheTickers -> HeldStates]]

RefreshInit ==
    /\ cin \in RefreshInputs
    /\ cpc = "ticker"
    /\ cidx = 1
    /\ ctf = 1
    /\ cbars = <<>>
    /\ cdone = {}
    /\ cmanifest = [t \in CacheTickers |-> cin.held[t].entry]
    /\ cdisk = [t \in CacheTickers |-> cin.held[t].entry]
    /\ cfiles = {<<t, RefreshTimeframes[k]>> :
                    t \in {x \in CacheTickers : cin.held[x].files},
                    k \in 1..Len(RefreshTimeframes)}
    /\ csucceeded = <<>>
    /\ cfailed = <<>>

RefreshIdle ==
    /\ cin = [tickers |-> <<>>]
    /\ cpc = "idle"
    /\ cidx = 1
    /\ ctf = 1
    /\ cbars = <<>>
    /\ cdone = {}
    /\ cmanifest = <<>>
    /\ cdisk = <<>>
    /\ cfiles = {}
    /\ csucceeded = <<>>
    /\ cfailed = <<>>

\* _validate_manifest(manifest, [ticker], timeframes) returns neither a missing
\* nor a stale timeframe: the entry is there and fresh and every file exists
ManifestReadyMutEntryOnly(manifest, files, ticker) ==
    manifest[ticker] \in {"fresh", "new"}
ManifestReady(manifest, files, ticker) ==
    /\ manifest[ticker] \in {"fresh", "new"}
    /\ \A k \in 1..Len(RefreshTimeframes) : <<ticker, RefreshTimeframes[k]>> \in files

\* the except clause, then the next ticker
FailTicker ==
    /\ cfailed' = Append(cfailed, cin.tickers[cidx])
    /\ cidx' = cidx + 1
    /\ cpc' = "ticker"
    /\ ctf' = 1
    /\ cbars' = <<>>
    /\ cdone' = {}

\* the top of an iteration: a ready ticker is appended to succeeded, any
\* other goes on to the downloads
RefreshValidate ==
    /\ cpc = "ticker"
    /\ cidx <= Len(cin.tickers)
    /\ IF ManifestReady(cmanifest, cfiles, cin.tickers[cidx])
         THEN /\ csucceeded' = Append(csucceeded, cin.tickers[cidx])
              /\ cidx' = cidx + 1
              /\ UNCHANGED cpc
         ELSE /\ cpc' = "download"
              /\ UNCHANGED <<csucceeded, cidx>>
    /\ UNCHANGED <<cin, ctf, cbars, cdone, cmanifest, cdisk, cfiles, cfailed>>

\* one iteration of "for timeframe in self._timeframes.values()": the
\* download raises, or yields bars or none
RefreshDownload ==
    /\ cpc = "download"
    /\ ctf <= Len(RefreshTimeframes)
    /\ \E outcome \in {"bars", "empty", "raise"} :
          IF outcome = "raise"
            THEN FailTicker
            ELSE /\ cbars' = Append(cbars, outcome)
                 /\ ctf' = ctf + 1
                 /\ UNCHANGED <<cpc, cidx, cdone, cfailed>>
    /\ UNCHANGED <<cin, cmanifest, cdisk, cfiles, csucceeded>>

\* after the downloads: a timeframe without bars raises ValueError
RefreshCheckEmpty ==
    /\ cpc = "download"
    /\ ctf > Len(RefreshTimeframes)
    /\ IF \E k \in 1..Len(cbars) : cbars[k] = "empty"
         THEN FailTicker
         ELSE /\ cpc' = "write"
              /\ ctf' = 1
              /\ UNCHANGED <<cidx, cbars, cdone, cfailed>>
    /\ UNCHANGED <<cin, cmanifest, cdisk, cfiles, csucceeded>>

\* one iteration of "for timeframe_name, bars in bars_by_timeframe.items()":
\* _write_json replaces the file, or raises and leaves it as it was
RefreshWriteFile ==
    /\ cpc = "write"
    /\ ctf <= Len(RefreshTimeframes)
    /\ \E outcome \in {"ok", "raise"} :
          IF outcome = "raise"
            THEN FailTicker /\ UNCHANGED cfiles
            ELSE /\ cfiles' = cfiles \cup {<<cin.tickers[cidx], RefreshTimeframes[ctf]>>}
                 /\ cdone' = cdone \cup {RefreshTimeframes[ctf]}
                 /\ ctf' = ctf + 1
                 /\ UNCHANGED <<cpc, cidx, cbars, cfailed>>
    /\ UNCHANGED <<cin, cmanifest, cdisk, csucceeded>>

\* the entry is updated in the manifest in memory, the manifest is written
\* (or the write raises) and the ticker appended to succeeded
RefreshWriteManifest ==
    /\ cpc = "write"
    /\ ctf > Len(RefreshTimeframes)
    /\ cmanifest' = [cmanifest EXCEPT ![cin.tickers[cidx]] = "new"]
    /\ \E outcome \in {"ok", "raise"} :
          IF outcome = "raise"
            THEN FailTicker /\ UNCHANGED <<cdisk, csucceeded>>
            ELSE /\ cdisk' = cmanifest'
                 /\ csucceeded' = Append(csucceeded, cin.tickers[cidx])
                 /\ cidx' = cidx + 1
                 /\ cpc' = "ticker"
                 /\ ctf' = 1
                 /\ cbars' = <<>>
                 /\ cdone' = {}
                 /\ UNCHANGED cfailed
    /\ UNCHANGED <<cin, cfiles>>

\* return succeeded, failed
RefreshReturn ==
    /\ cpc = "ticker"
    /\ cidx > Len(cin.tickers)
    /\ cpc' = "done"
    /\ UNCHANGED <<cin, cidx, ctf, cbars, cdone, cmanifest, cdisk, cfiles,
                   csucceeded, cfailed>>

-----------------------------------------------------------------------------
(* ---------------------------- Specifications ---------------------------- *)

SpecNormInit == NormInit /\ RangeIdle /\ BatchIdle /\ EngineIdle /\ DetIdle /\ AggIdle /\ SmaIdle /\ RunIdle /\ LlmIdle /\ RefreshIdle

SpecNormNext ==
    \/ NormalizeBars /\ UNCHANGED <<rangeVars, batchVars, engVars, detVars, aggVars, smaVars, runVars, llmVars, cacheVars>>
    \/ BarsToDf /\ UNCHANGED <<rangeVars, batchVars, engVars, detVars, aggVars, smaVars, runVars, llmVars, cacheVars>>

SpecNorm == SpecNormInit /\ [][SpecNormNext]_vars

SpecRangeInit == RangeInit /\ NormIdle /\ BatchIdle /\ EngineIdle /\ DetIdle /\ AggIdle /\ SmaIdle /\ RunIdle /\ LlmIdle /\ RefreshIdle

SpecRangeNext ==
    \/ RangeInvalidHorizon /\ UNCHANGED <<normVars, batchVars, engVars, detVars, aggVars, smaVars, runVars, llmVars, cacheVars>>
    \/ RangeEmpty /\ UNCHANGED <<normVars, batchVars, engVars, detVars, aggVars, smaVars, runVars, llmVars, cacheVars>>
    \/ RangeBegin /\ UNCHANGED <<normVars, batchVars, engVars, detVars, aggVars, smaVars, runVars, llmVars, cacheVars>>
    \/ RangeStep /\ UNCHANGED <<normVars, batchVars, engVars, detVars, aggVars, smaVars, runVars, llmVars, cacheVars>>
    \/ RangeReturn /\ UNCHANGED <<normVars, batchVars, engVars, detVars, aggVars, smaVars, runVars, llmVars, cacheVars>>

SpecRange == SpecRangeInit /\ [][SpecRangeNext]_vars

SpecBatchInit == BatchInit /\ NormIdle /\ RangeIdle /\ EngineIdle /\ DetIdle /\ AggIdle /\ SmaIdle /\ RunIdle /\ LlmIdle /\ RefreshIdle

SpecBatchNext ==
    \/ ScreenBegin /\ UNCHANGED <<normVars, rangeVars, engVars, detVars, aggVars, smaVars, runVars, llmVars, cacheVars>>
    \/ ScreenStep /\ UNCHANGED <<normVars, rangeVars, engVars, detVars, aggVars, smaVars, runVars, llmVars, cacheVars>>
    \/ ScreenEnd /\ UNCHANGED <<normVars, rangeVars, engVars, detVars, aggVars, smaVars, runVars, llmVars, cacheVars>>
    \/ RangeBatchEnsureReady /\ UNCHANGED <<normVars, rangeVars, engVars, detVars, aggVars, smaVars, runVars, llmVars, cacheVars>>
    \/ RangeBatchFetch /\ UNCHANGED <<normVars, rangeVars, engVars, detVars, aggVars, smaVars, runVars, llmVars, cacheVars>>
    \/ RangeBatchStep /\ UNCHANGED <<normVars, rangeVars, engVars, detVars, aggVars, smaVars, runVars, llmVars, cacheVars>>
    \/ RangeBatchEnd /\ UNCHANGED <<normVars, rangeVars, engVars, detVars, aggVars, smaVars, runVars, llmVars, cacheVars>>

SpecBatch == SpecBatchInit /\ [][SpecBatchNext]_vars

SpecEngineInit == EngineInit /\ NormIdle /\ RangeIdle /\ BatchIdle /\ DetIdle /\ AggIdle /\ SmaIdle /\ RunIdle /\ LlmIdle /\ RefreshIdle

SpecEngineNext ==
    \/ EngineReject /\ UNCHANGED <<normVars, rangeVars, batchVars, detVars, aggVars, smaVars, runVars, llmVars, cacheVars>>
    \/ EngineStart /\ UNCHANGED <<normVars, rangeVars, batchVars, detVars, aggVars, smaVars, runVars, llmVars, cacheVars>>
    \/ EngineBar /\ UNCHANGED <<normVars, rangeVars, batchVars, detVars, aggVars, smaVars, runVars, llmVars, cacheVars>>
    \/ EngineFinish /\ UNCHANGED <<normVars, rangeVars, batchVars, detVars, aggVars, smaVars, runVars, llmVars, cacheVars>>

SpecEngine == SpecEngineInit /\ [][SpecEngineNext]_vars

SpecDetectInit == DetInit /\ NormIdle /\ RangeIdle /\ BatchIdle /\ EngineIdle /\ AggIdle /\ SmaIdle /\ RunIdle /\ LlmIdle /\ RefreshIdle

SpecDetectNext ==
    \/ DetectCall /\ UNCHANGED <<normVars, rangeVars, batchVars, engVars, aggVars, smaVars, runVars, llmVars, cacheVars>>
    \/ BacktestCall /\ UNCHANGED <<normVars, rangeVars, batchVars, engVars, aggVars, smaVars, runVars, llmVars, cacheVars>>

SpecDetect == SpecDetectInit /\ [][SpecDetectNext]_vars

SpecAggInit == AggInit /\ NormIdle /\ RangeIdle /\ BatchIdle /\ EngineIdle /\ DetIdle /\ SmaIdle /\ RunIdle /\ LlmIdle /\ RefreshIdle

SpecAggNext ==
    \/ AggStep /\ UNCHANGED <<normVars, rangeVars, batchVars, engVars, detVars, smaVars, runVars, llmVars, cacheVars>>
    \/ AggFinish /\ UNCHANGED <<normVars, rangeVars, batchVars, engVars, detVars, smaVars, runVars, llmVars, cacheVars>>

SpecAgg == SpecAggInit /\ [][SpecAggNext]_vars

SpecSmaInit == SmaInit /\ RangeIdle /\ BatchIdle /\ EngineIdle /\ DetIdle /\ AggIdle /\ NormIdle /\ RunIdle /\ LlmIdle /\ RefreshIdle

SpecSmaNext ==
    \/ SmaNoWindow /\ UNCHANGED <<normVars, rangeVars, batchVars, engVars, detVars, aggVars, runVars, llmVars, cacheVars>>
    \/ SmaBegin /\ UNCHANGED <<normVars, rangeVars, batchVars, engVars, detVars, aggVars, runVars, llmVars, cacheVars>>
    \/ SmaStep /\ UNCHANGED <<normVars, rangeVars, batchVars, engVars, detVars, aggVars, runVars, llmVars, cacheVars>>
    \/ SmaReturn /\ UNCHANGED <<normVars, rangeVars, batchVars, engVars, detVars, aggVars, runVars, llmVars, cacheVars>>

SpecSma == SpecSmaInit /\ [][SpecSmaNext]_vars

SpecRunInit == RunInit /\ RangeIdle /\ BatchIdle /\ EngineIdle /\ DetIdle /\ AggIdle /\ SmaIdle /\ NormIdle /\ LlmIdle /\ RefreshIdle

SpecRunNext ==
    \/ RunReject /\ UNCHANGED <<normVars, rangeVars, batchVars, engVars, detVars, aggVars, smaVars, llmVars, cacheVars>>
    \/ RunBegin /\ UNCHANGED <<normVars, rangeVars, batchVars, engVars, detVars, aggVars, smaVars, llmVars, cacheVars>>
    \/ RunTicker /\ UNCHANGED <<normVars, rangeVars, batchVars, engVars, detVars, aggVars, smaVars, llmVars, cacheVars>>
    \/ RunReturn /\ UNCHANGED <<normVars, rangeVars, batchVars, engVars, detVars, aggVars, smaVars, llmVars, cacheVars>>

SpecRun == SpecRunInit /\ [][SpecRunNext]_vars

SpecLlmInit == LlmInit /\ RangeIdle /\ BatchIdle /\ EngineIdle /\ DetIdle /\ AggIdle /\ SmaIdle /\ RunIdle /\ NormIdle /\ RefreshIdle

SpecLlmNext ==
    \/ LlmNotConfigured /\ UNCHANGED <<normVars, rangeVars, batchVars, engVars, detVars, aggVars, smaVars, runVars, cacheVars>>
    \/ LlmBegin /\ UNCHANGED <<normVars, rangeVars, batchVars, engVars, detVars, aggVars, smaVars, runVars, cacheVars>>
    \/ LlmAttempt /\ UNCHANGED <<normVars, rangeVars, batchVars, engVars, detVars, aggVars, smaVars, runVars, cacheVars>>
    \/ LlmRaise /\ UNCHANGED <<normVars, rangeVars, batchVars, engVars, detVars, aggVars, smaVars, runVars, cacheVars>>

SpecLlm == SpecLlmInit /\ [][SpecLlmNext]_vars

SpecRefreshInit == RefreshInit /\ RangeIdle /\ BatchIdle /\ EngineIdle /\ DetIdle /\ AggIdle /\ SmaIdle /\ RunIdle /\ LlmIdle /\ NormIdle

SpecRefreshNext ==
    \/ RefreshValidate /\ UNCHANGED <<normVars, rangeVars, batchVars, engVars, detVars, aggVars, smaVars, runVars, llmVars>>
    \/ RefreshDownload /\ UNCHANGED <<normVars, rangeVars, batchVars, engVars, detVars, aggVars, smaVars, runVars, llmVars>>
    \/ RefreshCheckEmpty /\ UNCHANGED <<normVars, rangeVars, batchVars, engVars, detVars, aggVars, smaVars, runVars, llmVars>>
    \/ RefreshWriteFile /\ UNCHANGED <<normVars, rangeVars, batchVars, engVars, detVars, aggVars, smaVars, runVars, llmVars>>
    \/ RefreshWriteManifest /\ UNCHANGED <<normVars, rangeVars, batchVars, engVars, detVars, aggVars, smaVars, runVars, llmVars>>
    \/ RefreshReturn /\ UNCHANGED <<normVars, rangeVars, batchVars, engVars, detVars, aggVars, smaVars, runVars, llmVars>>

SpecRefresh == SpecRefreshInit /\ [][SpecRefreshNext]_vars

-----------------------------------------------------------------------------
(* ------------------- Claims: per-ticker range backtest ------------------ *)

SumBuckets(cnt) ==
    cnt["down_gt_5"] + cnt["down_0_5"] + cnt["up_0_5"] + cnt["up_gt_5"]

\* C1: at every point of the range backtest and in its result, for every
\* forward day d the four bucket counts of day d sum exactly to
\* sample_count_by_day[d] (every sampled return is in exactly one bucket).
C1_BucketsSumToSamples ==
    \A d \in DOMAIN sample_count_by_day :
        /\ d \in DOMAIN bucket_count_by_day
        /\ SumBuckets(bucket_count_by_day[d]) = sample_count_by_day[d]

\* a finished run with at least two samples on day 1 that fell into
\* different buckets
C1_Witness ==
    /\ rpc = "done" /\ rerror = ""
    /\ sample_count_by_day[1] >= 2
    /\ Cardinality({b \in BucketNames : bucket_count_by_day[1][b] > 0}) >= 2

\* the entry price the iteration that has just run used for its signal bar
EntryPriceOf(r, sig) ==
    IF r.entry_execution = "close" THEN r.bars[sig].c ELSE r.bars[sig + 1].o

\* day d was sampled by the step just taken
SampledInStep(d) == sample_count_by_day'[d] = sample_count_by_day[d] + 1

\* the step just taken counted day d in bucket b
CountedIn(d, b) == bucket_count_by_day'[d][b] = bucket_count_by_day[d][b] + 1

\* C2: whenever a step of the range backtest samples a forward return ret for
\* day d (tol = max(eps, 1e-12), threshold > tol): ret = -threshold is counted
\* in down_gt_5; ret = 0 and ret = +threshold are counted in up_0_5;
\* -threshold + tol < ret < -tol is counted in down_0_5; and a return is
\* counted in up_gt_5 only if ret > threshold + tol.
C2_BucketBoundariesStep ==
    \A d \in DOMAIN sample_count_by_day :
      (rpc = "loop" /\ SampledInStep(d)) =>
        LET e   == EntryPriceOf(rb, signal_idx')
            cv  == rb.bars[signal_idx' + d].c
            thr == rb.bucket_threshold_pct
            tol == Tol(rb.params.eps)
            \* sign of (bound + tol) - ret and of ret - (-tol), scaled by e * thr.den
            aboveLow  == EpsCmp(e * thr.den, (cv - e) * thr.den + thr.num * e, tol) < 0
            belowZero == EpsCmp(e, e - cv, tol) < 0
            aboveHigh == EpsCmp(e * thr.den, (cv - e) * thr.den - thr.num * e, tol) < 0
        IN /\ ((cv - e) * thr.den = 0 - thr.num * e) => CountedIn(d, "down_gt_5")
           /\ (cv = e) => CountedIn(d, "up_0_5")
           /\ ((cv - e) * thr.den = thr.num * e) => CountedIn(d, "up_0_5")
           /\ (aboveLow /\ belowZero) => CountedIn(d, "down_0_5")
           /\ CountedIn(d, "up_gt_5") => aboveHigh

C2_BucketBoundaries == [][C2_BucketBoundariesStep]_vars

\* the first iteration has just sampled, under policy close, a day-1 return of
\* exactly 0 and a day-2 return of exactly +threshold, both counted in up_0_5
C2_Witness ==
    /\ rpc = "loop" /\ evaluated_bars = 1 /\ signal_idx > 0
    /\ rb.entry_execution = "close"
    /\ rb.horizon_bars >= 2 /\ signal_idx + 2 <= Len(rb.bars)
    /\ rb.bars[signal_idx + 1].c = rb.bars[signal_idx].c
    /\ rb.bars[signal_idx + 2].c * 100 = rb.bars[signal_idx].c * 105
    /\ bucket_count_by_day[1]["up_0_5"] = 1
    /\ bucket_count_by_day[2]["up_0_5"] = 1

\* the as-of bars the scan visits
EvalRange(r) ==
    IF NoEvaluableBar(r) THEN {}
    ELSE eval_start(r.bars, r.params, r.start_dt)..end_pos(r.bars, r.end_dt)

HitsInRange(r) == {i \in EvalRange(r) : hit(r.bars, r.params, i)}

\* the most recent hit among the lookback_bars bars ending at as-of bar a
\* (the as-of bar alone when lookback_bars <= 1), 0 if there is none
WindowOf(r, a) == Max2(1, a - Max2(r.params.lookback_bars, 1) + 1)..a

MostRecentHit(r, a) ==
    LET hs == {j \in WindowOf(r, a) : hit(r.bars, r.params, j)} IN
    IF hs = {} THEN 0 ELSE CHOOSE j \in hs : \A k \in hs : k <= j

TriggeredAsOfs(r) == {a \in EvalRange(r) : MostRecentHit(r, a) # 0}

\* an event with signal bar sig has no usable entry price: under next_open the
\* signal bar is the last bar, or the entry price is NaN or <= 0
NoUsableEntry(r, sig) ==
    IF r.entry_execution = "next_open"
      THEN \/ sig = Len(r.bars)
           \/ r.bars[sig + 1].nan = "open"
           \/ r.bars[sig + 1].o <= 0
      ELSE r.bars[sig].nan = "close" \/ r.bars[sig].c <= 0

\* day d lies within the frame and no close from day 1 to day d is NaN
ForwardDefinedUpTo(r, sig, d) ==
    /\ sig + d <= Len(r.bars)
    /\ \A k \in 1..d : r.bars[sig + k].nan # "close"

\* the as-of bars of the range that sample forward day d
SamplingAsOfs(r, hs, d) ==
    {a \in hs : /\ ~NoUsableEntry(r, MostRecentHit(r, a))
                /\ ForwardDefinedUpTo(r, MostRecentHit(r, a), d)}

\* C3 (as claimed): for every lookback_bars, triggered_events is the number of
\* hit bars inside the evaluated range and each hit bar is sampled exactly once.
C3_Original ==
    (rpc = "done" /\ rerror = "") =>
        /\ triggered_events = Cardinality(HitsInRange(rb))
        /\ \A d \in 1..rb.horizon_bars :
             sample_count_by_day[d] =
               Cardinality({i \in HitsInRange(rb) : i + d <= Len(rb.bars)})

\* C3 (amended): triggered_events is the number of as-of bars of the evaluated
\* range whose lookback window holds a hit, and every such as-of bar samples
\* once the forward days of the most recent hit of its window, as far as the
\* frame and the closes reach and unless the event has no usable entry price;
\* for lookback_bars <= 1 this is the number of hit bars of the range, each
\* sampled once.
C3_TriggeredPerAsOf ==
    (rpc = "done" /\ rerror = "") =>
        /\ triggered_events = Cardinality(TriggeredAsOfs(rb))
        /\ \A d \in 1..rb.horizon_bars :
             sample_count_by_day[d] =
               Cardinality(SamplingAsOfs(rb, TriggeredAsOfs(rb), d))
        /\ rb.params.lookback_bars <= 1 =>
             /\ triggered_events = Cardinality(HitsInRange(rb))
             /\ \A d \in 1..rb.horizon_bars :
                  sample_count_by_day[d] =
                    Cardinality(SamplingAsOfs(rb, HitsInRange(rb), d))

\* a finished run with lookback_bars = 2 that counted more triggered events
\* than the range has hit bars
C3_Witness ==
    /\ rpc = "done" /\ rerror = ""
    /\ rb.params.lookback_bars = 2
    /\ HitsInRange(rb) # {}
    /\ triggered_events > Cardinality(HitsInRange(rb))

\* C5 (as claimed): with horizon >= 1, every entry_execution other than close
\* and next_open makes the range backtest return invalid_entry_execution,
\* whatever the bars and the window are.
C5_InvalidEntryExecutionAlways ==
    (rpc = "done" /\ rb.horizon_bars >= 1
       /\ rb.entry_execution \notin {"close", "next_open"}) =>
        rerror = "invalid_entry_execution"

-----------------------------------------------------------------------------
(* ----------------------- Claims: bar normalisation ---------------------- *)

\* the payload of the last raw record carrying timestamp ts
LastRawWith(ts) ==
    LET idx == {i \in 1..Len(raw) : raw[i].t = ts}
        last == CHOOSE i \in idx : \A j \in idx : j <= i
    IN raw[last].c

\* C6 (as claimed): after _normalize_bars and _bars_to_df the rows are strictly
\* increasing by timestamp (no two rows share one), every timestamp of the
\* input has a row, and the row of a repeated timestamp is the record that
\* came last in the input.
C6_StrictlyIncreasingLastWins ==
    npc = "df" =>
        /\ \A i, j \in 1..Len(df) : i < j => df[i].time < df[j].time
        /\ \A k \in 1..Len(raw) : raw[k].t # NoTs =>
             \E i \in 1..Len(df) :
                df[i].time = raw[k].t /\ df[i].Close = LastRawWith(raw[k].t)

-----------------------------------------------------------------------------
(* ----------------------- Claims: batch operations ----------------------- *)

ResultOf(t) ==
    LET idx == {i \in 1..Len(bresults) : bresults[i].symbol = t} IN
    IF idx = {} THEN "none" ELSE bresults[CHOOSE i \in idx : TRUE].result

\* C4 (as claimed): a finished screening or range aggregation never raised
\* because of one ticker's data (missing or stale cache entry, insufficient
\* history): such a ticker is skipped or reported with its own error, and
\* every ticker of the batch with usable bars is evaluated and returned.
C4_PartialFailureIsolation ==
    (bpc = "done" /\ \E i \in 1..Len(btickers) : bcache[btickers[i]] = "fresh") =>
        /\ berror = ""
        /\ \A i \in 1..Len(btickers) :
             /\ bcache[btickers[i]] = "fresh" => ResultOf(btickers[i]) = "evaluated"
             /\ bcache[btickers[i]] # "fresh" => ResultOf(btickers[i]) # "evaluated"

\* C4 restricted to screening, where it holds
C4_ScreenIsolation == bop = "screen" => C4_PartialFailureIsolation


(* ------------------------ Claims: generic backtest ----------------------- *)

EngineReturned == epc = "done" /\ eerror = "" /\ eresult # NoResult

ExitCount == Cardinality({k \in 1..Len(efills) : efills[k] = "exit"})

\* C8: at every step of the simulation at most one position is open: a buy is
\* pending only while FLAT and a close only while LONG, the fills alternate
\* entry, exit, entry, ... starting with an entry, the share count is 0
\* exactly when the last fill was not an entry, and the recorded trades are
\* the exits.
C8_SinglePositionAlternation ==
    /\ eshares >= 0
    /\ (eorder = "buy" => eshares = 0)
    /\ (eorder = "close" => eshares > 0)
    /\ \A k \in 1..Len(efills) :
          efills[k] = IF k % 2 = 1 THEN "entry" ELSE "exit"
    /\ (eshares = 0 <=> Len(efills) % 2 = 0)
    /\ Len(etrades) = ExitCount
    /\ (eresult # NoResult => eresult.tradeCount = ExitCount)

C8_Witness ==
    /\ EngineReturned
    /\ Len(efills) >= 3
    /\ eshares > 0
    /\ eresult.tradeCount = 1

\* C9: the returned signal is a function of the indicators at the last bar
\* alone: for ma_crossover BUY iff the fast average exceeds the slow one
\* there, SELL iff it is below, else HOLD; for rsi_reversal BUY iff the last
\* RSI is below lower, SELL iff it is above upper, else HOLD; whatever the
\* position held and the trades made.
C9_SignalFromLastBar ==
    EngineReturned =>
        LET n == Len(eng.bars)
            st == eng.strategy
        IN IF st.name = "ma_crossover"
             THEN LET fastSum == SumRange(Closes(eng.bars), n - st.fast + 1, n)
                      slowSum == SumRange(Closes(eng.bars), n - st.slow + 1, n)
                  IN /\ (eresult.signal = "BUY"  <=> fastSum * st.slow > slowSum * st.fast)
                     /\ (eresult.signal = "SELL" <=> fastSum * st.slow < slowSum * st.fast)
                     /\ (eresult.signal = "HOLD" <=> fastSum * st.slow = slowSum * st.fast)
             ELSE LET r == Rsi(eng.bars, st.length, n)
                  IN /\ (eresult.signal = "BUY"  <=> r.num < st.lower * r.den)
                     /\ (eresult.signal = "SELL" <=> r.num > st.upper * r.den)
                     /\ (eresult.signal = "HOLD" <=>
                            (r.num >= st.lower * r.den /\ r.num <= st.upper * r.den))

\* a BUY signal returned by a run that ends FLAT after a completed trade
C9_Witness ==
    /\ EngineReturned
    /\ eng.strategy.name = "ma_crossover"
    /\ eresult.signal = "BUY"
    /\ eshares = 0
    /\ Len(etrades) >= 1

\* C10: _run_strategy_on_bars rejects bad input before any simulation, in a
\* fixed order: an empty series first; for ma_crossover slow <= fast before
\* the bar count, then fewer than slow + 2 bars; for rsi_reversal length < 2
\* before the bar count, then fewer than length + 2 bars; any other name is
\* unsupported; with slow + 2 (length + 2) bars or more the run is accepted.
C10_ValidationOrder ==
    epc = "done" =>
        LET n == Len(eng.bars)
            st == eng.strategy
            expected ==
              IF n = 0 THEN "No bars available for backtest."
              ELSE IF st.name = "ma_crossover" /\ st.slow <= st.fast
                THEN "slow must be greater than fast."
              ELSE IF st.name = "ma_crossover" /\ n < st.slow + 2
                THEN "Not enough bars for MA crossover."
              ELSE IF st.name = "rsi_reversal" /\ st.length < 2
                THEN "length must be >= 2"
              ELSE IF st.name = "rsi_reversal" /\ n < st.length + 2
                THEN "Not enough bars for RSI."
              ELSE IF st.name \notin {"ma_crossover", "rsi_reversal"}
                THEN "Unsupported strategy."
              ELSE ""
        IN /\ eerror = expected
           /\ (expected # "" => eresult = NoResult /\ eequity = <<>> /\ efills = <<>>)
           /\ (expected = "" => eresult # NoResult)

\* an invalid parameter reported although the series is also too short
C10_Witness ==
    /\ epc = "done"
    /\ eng.strategy.name = "ma_crossover"
    /\ eng.strategy.slow <= eng.strategy.fast
    /\ Len(eng.bars) > 0
    /\ Len(eng.bars) < eng.strategy.slow + 2
    /\ eerror = "slow must be greater than fast."


(* ------------------------------ Claims: RSI ------------------------------ *)

\* C11 as stated: where the smoothed average loss is 0 the RSI is 100, so on a
\* series whose last average loss is 0 rsi_reversal returns SELL whenever
\* upper < 100, and on a series that never declines it never buys.
C11_RsiSaturatesAt100 ==
    (EngineReturned /\ eng.strategy.name = "rsi_reversal"
       /\ AvgLoss(eng.bars, eng.strategy.length, Len(eng.bars)) = 0)
        => /\ eresult.signal = "SELL"
           /\ efills = <<>>


(* ---------------------------- Claims: metrics ---------------------------- *)

\* C12 as stated: a backtest that completes without trades returns
\* tradeCount = 0 with winRate and avgHoldBars both null; with trades, winRate
\* is the fraction of trades with positive return and avgHoldBars the mean of
\* exit bar minus entry bar.
C12_MetricsNullWithoutTrades ==
    EngineReturned =>
        IF etrades = <<>>
          THEN /\ eresult.tradeCount = 0
               /\ eresult.winRate = Null
               /\ eresult.avgHoldBars = Null
          ELSE /\ eresult.winRate.kind = "num"
               /\ eresult.winRate.den = Len(etrades)
               /\ eresult.winRate.num =
                    Cardinality({k \in 1..Len(etrades) :
                                    ReturnPositive(etrades[k], eng.fees_bps)})
               /\ eresult.avgHoldBars.kind = "num"
               /\ eresult.avgHoldBars.den = Len(etrades)
               /\ eresult.avgHoldBars.num =
                    SumRange([k \in 1..Len(etrades) |->
                                 etrades[k].ExitBar - etrades[k].EntryBar],
                             1, Len(etrades))


(* ------------------------ Claims: as-of detector ------------------------- *)

\* the end index of a detector call, and the window it scans
DetEnd == IF din.end_idx = MaxDetBars + 2 THEN Len(din.bars) ELSE din.end_idx

DetWindow == Max2(1, DetEnd - din.params.lookback_bars + 1)..DetEnd

DetectEvaluated == dop = "detect" /\ dpc = "done" /\ "hits" \in dres.keys

HitIndices == {dres.hits[k].bar_index : k \in 1..Len(dres.hits)}

\* the hit condition as the specification words it (opens are positive)
PullbackHit(bars, p, i) ==
    LET c == Closes(bars)
        v == Volumes(bars)
        b == bars[i]
        j == i - p.long_ma_slope_window
        fastSum == SumRange(c, i - p.fast_ma + 1, i)
        slowSum == SumRange(c, i - p.slow_ma + 1, i)
        longSum == SumRange(c, i - p.long_ma + 1, i)
        refSum == SumRange(c, j - p.long_ma + 1, j)
        volSum == SumRange(v, i - p.vol_avg_window, i - 1)
    IN /\ i >= p.fast_ma /\ i >= p.slow_ma /\ i >= p.long_ma /\ j >= p.long_ma
       /\ b.c * p.fast_ma > fastSum
       /\ b.c * p.slow_ma > slowSum
       /\ fastSum * p.slow_ma > slowSum * p.fast_ma
       /\ longSum * p.long_ma_slope_min_pct.den
             > refSum * (p.long_ma_slope_min_pct.den + p.long_ma_slope_min_pct.num)
       /\ b.c < b.o
       /\ (b.o - b.c) * p.min_body_pct.den >= p.min_body_pct.num * b.o
       /\ (p.min_range_pct.set =>
             (b.h - b.l) * p.min_range_pct.den >= p.min_range_pct.num * b.o)
       /\ i - p.vol_avg_window >= 1
       /\ volSum > 0
       /\ b.v > 0
       /\ b.v * p.vol_avg_window * p.vol_ratio_max.den <= p.vol_ratio_max.num * volSum

C14_HitsMostRecentFirst ==
    DetectEvaluated =>
        /\ HitIndices = {i \in DetWindow : PullbackHit(din.bars, din.params, i)}
        /\ \A k \in 1..(Len(dres.hits) - 1) :
              /\ dres.hits[k].bar_index > dres.hits[k + 1].bar_index
              /\ dres.hits[k].as_of > dres.hits[k + 1].as_of
        /\ \A k \in 1..Len(dres.hits) :
              dres.hits[k].as_of = din.bars[dres.hits[k].bar_index].t
        /\ (dres.triggered <=> dres.hits # <<>>)
        /\ (dres.triggered =>
              /\ dres.top = dres.hits[1]
              /\ {"bar_index", "as_of", "vol_ratio", "body_pct"} \subseteq dres.keys)
        /\ (~dres.triggered => dres.keys = {"triggered", "hits"})

C14_Witness ==
    /\ DetectEvaluated
    /\ Len(dres.hits) >= 2
    /\ dres.top.bar_index = DetEnd - 1
    /\ din.params.lookback_bars >= 3

CutoffEnd == Cardinality({i \in 1..Len(din.bars) : din.bars[i].t <= din.cutoff_dt})

CutoffHits ==
    {i \in Max2(1, CutoffEnd - din.params.lookback_bars + 1)..CutoffEnd :
        PullbackHit(din.bars, din.params, i)}

\* a single-signal backtest that found a hit under a supported entry policy
BacktestHit ==
    /\ dop = "backtest" /\ dpc = "done"
    /\ CutoffEnd >= required_len(din.params)
    /\ CutoffHits # {}
    /\ din.entry_execution \in {"close", "next_open"}

PrimaryHit == SetMax(CutoffHits)

\* C16: when a hit is found the entry price is the close of the primary hit
\* bar under "close" and the open of the bar right after it under
\* "next_open"; under "next_open" with the primary hit on the last bar the
\* call reports no_entry_bar with an empty forward list.
C16_EntryPrice ==
    BacktestHit =>
        /\ dres.triggered
        /\ dres.signal_idx = PrimaryHit
        /\ (din.entry_execution = "close" =>
              dres.error = "" /\ dres.entry_price = Price(din.bars[PrimaryHit].c))
        /\ ((din.entry_execution = "next_open" /\ PrimaryHit < Len(din.bars)) =>
              dres.error = "" /\ dres.entry_price = Price(din.bars[PrimaryHit + 1].o))
        /\ ((din.entry_execution = "next_open" /\ PrimaryHit = Len(din.bars)) =>
              dres.error = "no_entry_bar" /\ dres.forward = <<>> /\ dres.entry_price.nan)

\* next_open entered at an open that differs from the closes around it
C16_Witness ==
    /\ BacktestHit
    /\ din.entry_execution = "next_open"
    /\ PrimaryHit < Len(din.bars)
    /\ dres.entry_price.value = din.bars[PrimaryHit + 1].o
    /\ din.bars[PrimaryHit + 1].o # din.bars[PrimaryHit + 1].c
    /\ din.bars[PrimaryHit + 1].o # din.bars[PrimaryHit].c

\* C17: with signal bar s and n bars the forward list has min(horizon, bars
\* after s) points, day = 1, 2, ... consecutively; the point of day d carries
\* the timestamp and close of bar s + d and return close / entryPrice - 1,
\* under both entry policies; no point comes from the signal bar or from
\* beyond the series.
C17_ForwardList ==
    (BacktestHit /\ din.horizon_bars >= 0) =>
        LET s == PrimaryHit
            fwd == dres.forward
        IN /\ Len(fwd) = Min2(din.horizon_bars, Len(din.bars) - s)
           /\ \A d \in 1..Len(fwd) :
                 /\ fwd[d].day = d
                 /\ s + d <= Len(din.bars)
                 /\ fwd[d].ts = din.bars[s + d].t
                 /\ fwd[d].close = din.bars[s + d].c
                 /\ ~dres.entry_price.nan
                 /\ fwd[d].ret.num * dres.entry_price.value
                       = (din.bars[s + d].c - dres.entry_price.value) * fwd[d].ret.den

\* next_open, cut short by the end of the series, day 1 on the entry bar
C17_Witness ==
    /\ BacktestHit
    /\ din.entry_execution = "next_open"
    /\ Len(dres.forward) >= 1
    /\ Len(dres.forward) < din.horizon_bars
    /\ dres.forward[1].ts = din.bars[PrimaryHit + 1].t
    /\ dres.forward[1].ret.num < 0


(* ----------------------- Claims: range aggregation ----------------------- *)

\* the symbols whose per-symbol result carries counts
Counted == {k \in 1..Len(ain.outcomes) : ain.outcomes[k].kind = "counts"}

RECURSIVE SumOver(_, _)
SumOver(S, f) ==
    IF S = {} THEN 0
    ELSE LET k == CHOOSE x \in S : TRUE IN f[k] + SumOver(S \ {k}, f)

SamplesOfDay(d) ==
    SumOver(Counted, [k \in Counted |-> ain.outcomes[k].sample_count_by_day[d]])

WinsOfDay(d) ==
    SumOver(Counted, [k \in Counted |-> ain.outcomes[k].win_count_by_day[d]])

BucketOfDay(d, b) ==
    SumOver(Counted, [k \in Counted |-> ain.outcomes[k].bucket_count_by_day[d][b]])

AggReturned == apc = "done" /\ aerror = ""

\* C18: in the response, every forward day with a positive aggregated sample
\* count has winRateByDay = summed wins / summed samples and the four bucket
\* rates = summed bucket counts / the same denominator, summing to 1; a day
\* without samples has no entry in either map; symbols without bars or with an
\* error contribute nothing.
C18_AggregatedRates ==
    AggReturned =>
        \A d \in 1..ain.horizon :
            IF SamplesOfDay(d) > 0
              THEN /\ d \in DOMAIN asummary.winRateByDay
                   /\ d \in DOMAIN asummary.bucketRateByDay
                   /\ asummary.winRateByDay[d].num * SamplesOfDay(d)
                         = WinsOfDay(d) * asummary.winRateByDay[d].den
                   /\ \A b \in BucketNames :
                         /\ asummary.bucketRateByDay[d][b].den = SamplesOfDay(d)
                         /\ asummary.bucketRateByDay[d][b].num = BucketOfDay(d, b)
                   /\ SumBuckets([b \in BucketNames |-> asummary.bucketRateByDay[d][b].num])
                         = SamplesOfDay(d)
                   /\ asummary.sampleCountByDay[d] = SamplesOfDay(d)
              ELSE /\ d \notin DOMAIN asummary.winRateByDay
                   /\ d \notin DOMAIN asummary.bucketRateByDay

\* two symbols sampled on day 1, one of them a win, one symbol without bars
\* or samples on day 2
C18_Witness ==
    /\ AggReturned
    /\ ain.horizon = 2
    /\ SamplesOfDay(1) = 2 /\ WinsOfDay(1) = 1
    /\ SamplesOfDay(2) = 0
    /\ 2 \notin DOMAIN asummary.winRateByDay


(* ------------------- Claims: per-ticker range backtest ------------------- *)

RangeDone == rpc = "done"

\* the bars with a timestamp in [start_dt, end_dt] at or after required_len - 1
\* (0-based), i.e. at 1-based position >= required_len
EvaluableBars(r) ==
    {i \in 1..Len(r.bars) :
        /\ r.start_dt <= r.bars[i].t /\ r.bars[i].t <= r.end_dt
        /\ i >= required_len(r.params)}

ZeroCountsReturned ==
    /\ rerror = ""
    /\ evaluated_bars = 0 /\ triggered_events = 0
    /\ sample_count_by_day = [day \in 1..rb.horizon_bars |-> 0]
    /\ win_count_by_day = [day \in 1..rb.horizon_bars |-> 0]
    /\ bucket_count_by_day = [day \in 1..rb.horizon_bars |-> [b \in BucketNames |-> 0]]

\* C19 as stated: for horizon >= 1 every call reports evaluated_bars = the
\* number of evaluable bars.
C19_Original ==
    (RangeDone /\ rb.horizon_bars >= 1) =>
        /\ rerror = ""
        /\ evaluated_bars = Cardinality(EvaluableBars(rb))

\* C19: horizon < 1 returns invalid_horizon and nothing else; for horizon >= 1
\* a result without error reports evaluated_bars = the number of bars with a
\* timestamp in [start, end] at index >= required_len - 1; when there is no
\* such bar the result is zero counts keyed by every day 1..horizon, without
\* error.  The only error for horizon >= 1 is invalid_entry_execution, raised
\* at a triggered event under an unsupported entry execution.
C19_EvaluatedBars ==
    RangeDone =>
        /\ rb.horizon_bars < 1 =>
              /\ rerror = "invalid_horizon"
              /\ evaluated_bars = 0
              /\ sample_count_by_day = <<>>
        /\ rb.horizon_bars >= 1 =>
              /\ rerror \in {"", "invalid_entry_execution"}
              /\ rerror = "" => evaluated_bars = Cardinality(EvaluableBars(rb))
              /\ rerror # "" =>
                    /\ rb.entry_execution \notin {"close", "next_open"}
                    /\ triggered_events >= 1
              /\ EvaluableBars(rb) = {} => ZeroCountsReturned

\* a window over the whole data whose first bars are too early to evaluate
C19_Witness ==
    /\ RangeDone /\ rerror = ""
    /\ rb.horizon_bars >= 1
    /\ rb.start_dt <= 1 /\ rb.end_dt >= Len(rb.bars)
    /\ evaluated_bars >= 2
    /\ evaluated_bars < Len(rb.bars)


(* ------------------- Claims: ma_crossover simulation --------------------- *)

\* the bar Strategy.next has just decided on, 0 before the first pass
LastDecidedBar == IF epc = "run" /\ ei > FirstSimBar(eng.strategy) THEN ei - 1 ELSE 0

\* C20: in the ma_crossover simulation, at every bar where both averages are
\* defined, a FLAT position with fast MA > slow MA places an entry (whether or
\* not the fast MA was below the slow MA one bar earlier) and a LONG position
\* with fast MA < slow MA places an exit.
C20_LevelRule ==
    (eng.strategy.name = "ma_crossover" /\ LastDecidedBar > 0) =>
        LET st == eng.strategy
            i == LastDecidedBar
        IN /\ (MaAbove(eng.bars, st.fast, st.slow, i) /\ eshares = 0) => eorder = "buy"
           /\ (MaBelow(eng.bars, st.fast, st.slow, i) /\ eshares > 0) => eorder = "close"


(* ------------------- Claims: execution price of fills -------------------- *)

\* C21: an entry or exit decided on bar i is executed at the close of bar i:
\* the open position and every recorded trade carry, as entry and as exit
\* price, the close of the bar on which the order was placed (the bar before
\* the one the fill is booked on).
C21_ExecutesAtDecisionClose ==
    epc \in {"run", "done"} =>
        /\ eshares > 0 => eentry.price = eng.bars[eentry.bar - 1].c
        /\ \A k \in 1..Len(etrades) :
              /\ etrades[k].EntryPrice = eng.bars[etrades[k].EntryBar - 1].c
              /\ etrades[k].ExitPrice = eng.bars[etrades[k].ExitBar - 1].c


(* ------------- Claims: bulk hit series against the detector -------------- *)

DetectReturned == dpc = "done" /\ dop = "detect"

BacktestReturned == dpc = "done" /\ dop = "backtest"

LastBarAtOrBefore(bars, cutoff) ==
    LET S == {i \in 1..Len(bars) : bars[i].t <= cutoff}
    IN IF S = {} THEN 0 ELSE SetMax(S)

\* C23: the single-signal backtest runs the detector at the last bar whose
\* timestamp is <= the cutoff (a bar exactly at the cutoff included); an empty
\* series returns no_bars; when every bar is later than the cutoff it returns
\* asof_out_of_range with triggered = false; a detector error, or no hit, is
\* returned as triggered = false with the detector's error (none when there
\* is no hit) and with end_ts and end_idx of the located bar.
C23_CutoffAndPassThrough ==
    BacktestReturned =>
        LET e == LastBarAtOrBefore(din.bars, din.cutoff_dt)
            det == _detect_low_volume_pullback(din.bars, din.params, e)
        IN IF Len(din.bars) = 0
             THEN /\ ~dres.triggered /\ dres.error = "no_bars"
                  /\ dres.keys = {"triggered", "error"}
           ELSE IF e = 0
             THEN /\ ~dres.triggered /\ dres.error = "asof_out_of_range"
                  /\ dres.keys = {"triggered", "error"}
           ELSE /\ "end_idx" \in dres.keys /\ "end_ts" \in dres.keys
                /\ dres.end_idx = e
                /\ ~det.triggered =>
                      /\ ~dres.triggered
                      /\ dres.error = (IF "error" \in det.keys THEN det.error ELSE "None")
                      /\ dres.keys = {"triggered", "error", "end_ts", "end_idx"}
                /\ (det.triggered /\ din.entry_execution \in {"close", "next_open"}) =>
                      /\ dres.triggered
                      /\ dres.signal_idx = det.top.bar_index

\* a cutoff exactly at the timestamp of a hit bar that has later bars
C23_Witness ==
    /\ BacktestReturned
    /\ din.cutoff_dt \in 1..(Len(din.bars) - 1)
    /\ din.bars[din.cutoff_dt].t = din.cutoff_dt
    /\ dres.triggered
    /\ dres.end_idx = din.cutoff_dt
    /\ dres.signal_idx = din.cutoff_dt


(* --------------- Claims: events without a usable price ------------------- *)

\* the iteration just taken found a signal under a supported entry execution
TriggeredInStep ==
    /\ rpc = "loop" /\ evaluated_bars' = evaluated_bars + 1
    /\ signal_idx' # 0
    /\ rb.entry_execution \in {"close", "next_open"}

CountsUnchangedInStep ==
    /\ sample_count_by_day' = sample_count_by_day
    /\ win_count_by_day' = win_count_by_day
    /\ bucket_count_by_day' = bucket_count_by_day

C24_SkipsStep ==
    TriggeredInStep =>
        /\ triggered_events' = triggered_events + 1
        /\ rerror' = "" /\ rpc' = "loop" /\ asof_idx' = asof_idx + 1
        /\ IF NoUsableEntry(rb, signal_idx')
             THEN CountsUnchangedInStep
             ELSE \A d \in 1..rb.horizon_bars :
                     /\ SampledInStep(d) <=> ForwardDefinedUpTo(rb, signal_idx', d)
                     /\ ~SampledInStep(d) =>
                           /\ sample_count_by_day'[d] = sample_count_by_day[d]
                           /\ win_count_by_day'[d] = win_count_by_day[d]
                           /\ bucket_count_by_day'[d] = bucket_count_by_day[d]

\* C24: in the per-ticker range backtest a triggered event whose entry price
\* is <= 0 or NaN, or (under next_open) whose signal bar is the last bar,
\* increments triggered_events, adds no sample, win or bucket count for any
\* day, and the scan goes on with the next bar without error; an event with a
\* usable entry price samples day d iff the forward bar exists and no forward
\* close up to day d is NaN, so a NaN close at day d ends the sampling of the
\* event for day d and every later day.
C24_Skips == [][C24_SkipsStep]_vars

\* the first iteration found a signal under next_open whose entry bar opens
\* at 0: the event is counted and nothing is sampled
C24_Witness ==
    /\ rpc = "loop" /\ rerror = "" /\ evaluated_bars = 1
    /\ rb.entry_execution = "next_open"
    /\ signal_idx \in 1..(Len(rb.bars) - 1)
    /\ rb.bars[signal_idx + 1].nan = "none" /\ rb.bars[signal_idx + 1].o = 0
    /\ triggered_events = 1 /\ sample_count_by_day[1] = 0


(* ----------------------- Claims: no lookahead ---------------------------- *)

\* the series cut after bar e
UpTo(bars, e) == SubSeq(bars, 1, e)

\* C25: the detector called with end index e returns what it returns on the
\* series cut after bar e, so two series that agree on the bars up to e give
\* the same triggered flag and the same hits whatever follows; the bulk hit
\* flag of bar e likewise; and the vol_ratio of a hit at bar i is the volume of
\* bar i over the mean of the volumes of bars i - vol_avg_window .. i - 1.
C25_NoLookahead ==
    (DetectReturned /\ DetEnd \in 1..Len(din.bars)) =>
        LET e == DetEnd
            p == din.params
            w == p.vol_avg_window
        IN /\ dres = _detect_low_volume_pullback(UpTo(din.bars, e), p, e)
           /\ e >= required_len(p) =>
                 (hit(din.bars, p, e) <=> hit(UpTo(din.bars, e), p, e))
           /\ \A k \in 1..Len(dres.hits) :
                 LET i == dres.hits[k].bar_index
                 IN /\ i <= e
                    /\ dres.hits[k].vol_ratio.num = din.bars[i].v * w
                    /\ dres.hits[k].vol_ratio.den
                          = SumRange(Volumes(din.bars), i - w, i - 1)

\* the detector called at a hit bar that is followed by a bar which is a
\* hit as well
C25_Witness ==
    /\ DetectReturned
    /\ DetEnd \in 1..(Len(din.bars) - 1)
    /\ dres.triggered /\ dres.top.bar_index = DetEnd
    /\ BarIsHit(din.bars, din.params, DetEnd + 1)


(* ----------------------- Claims: SMA series ------------------------------ *)

\* the last position at or before i that holds no number, 0 if there is none
LastNonNumeric(values, i) ==
    LET S == {j \in 1..i : values[j].kind # "num"}
    IN IF S = {} THEN 0 ELSE SetMax(S)

\* C26: _compute_sma_series returns a list as long as its input; a window <= 0
\* gives None everywhere; for a window w >= 1 position i holds a value iff the
\* w positions ending at i all hold numbers, and then it is their mean, so on
\* an all-numeric input the first w - 1 positions are None (never 0) and the
\* others the mean of the last w values, and a non-numeric value at j leaves j
\* and the w - 1 positions after it None.
C26_SmaSeries ==
    spc = "done" =>
        /\ Len(soutput) = Len(sin.values)
        /\ \A i \in 1..Len(sin.values) :
              IF sin.window <= 0 \/ i - LastNonNumeric(sin.values, i) < sin.window
                THEN soutput[i] = Null
                ELSE /\ soutput[i].kind = "num"
                     /\ soutput[i].den = sin.window
                     /\ soutput[i].num
                           = SumRange([k \in 1..Len(sin.values) |-> sin.values[k].num],
                                      i - sin.window + 1, i)

\* a None in the middle of numbers with window 2: the position after it is
\* undefined, the one after that is defined again
C26_Witness ==
    /\ spc = "done"
    /\ sin.window = 2
    /\ Len(sin.values) = 4
    /\ sin.values[1].kind = "num" /\ sin.values[2].kind = "null"
    /\ soutput[3] = Null
    /\ soutput[4].kind = "num"


(* ------------------- Claims: order of the counters ----------------------- *)

\* C27: in every result of the per-ticker range backtest, and at every point
\* of the scan, for every day d 0 <= win_count_by_day[d] <=
\* sample_count_by_day[d]; sample_count_by_day[d + 1] <= sample_count_by_day[d];
\* and sample_count_by_day[1] <= triggered_events <= evaluated_bars.
C27_CountersOrdered ==
    (rpc \in {"loop", "done"} /\ rb.horizon_bars >= 1) =>
        /\ \A d \in 1..rb.horizon_bars :
              /\ 0 <= win_count_by_day[d]
              /\ win_count_by_day[d] <= sample_count_by_day[d]
        /\ \A d \in 1..(rb.horizon_bars - 1) :
              sample_count_by_day[d + 1] <= sample_count_by_day[d]
        /\ sample_count_by_day[1] <= triggered_events
        /\ triggered_events <= evaluated_bars

\* a result with two events, fewer wins than samples, fewer samples on day 2
\* than on day 1 and an evaluated bar without event
C27_Witness ==
    /\ rpc = "done" /\ rerror = ""
    /\ rb.horizon_bars >= 2
    /\ 0 < win_count_by_day[1] /\ win_count_by_day[1] < sample_count_by_day[1]
    /\ 0 < sample_count_by_day[2] /\ sample_count_by_day[2] < sample_count_by_day[1]
    /\ sample_count_by_day[1] = triggered_events
    /\ triggered_events < evaluated_bars


(* ----------------------- Claims: run_backtest ---------------------------- *)

\* the positions of request.tickers whose ticker fails
FailingPositions == {i \in 1..Len(qin.tickers) : TickerError(qin, qin.tickers[i]) # ""}

SetMin(S) == CHOOSE x \in S : \A y \in S : x <= y

\* C28: run_backtest checks mode, then timeframe, then unknown tickers before
\* any bars are read; it then handles the tickers in request order, and the
\* first ticker that fails ends the call with that ticker's error and without
\* a response, no later ticker being read; when no ticker fails the results
\* map has exactly one entry per distinct requested ticker.
C28_AllOrNothing ==
    qpc = "done" =>
        IF qin.mode # "independent"
          THEN /\ qerror = "Only independent mode is supported in MVP."
               /\ qreads = <<>> /\ qresponse = NoResponse
        ELSE IF ~qin.timeframe_known
          THEN /\ qerror = "Timeframe not supported."
               /\ qreads = <<>> /\ qresponse = NoResponse
        ELSE IF \E i \in 1..Len(qin.tickers) : qin.tickers[i] = "TX"
          THEN /\ qerror = "Unknown ticker in request."
               /\ qreads = <<>> /\ qresponse = NoResponse
        ELSE IF FailingPositions # {}
          THEN LET k == SetMin(FailingPositions)
               IN /\ qerror = TickerError(qin, qin.tickers[k])
                  /\ qreads = SubSeq(qin.tickers, 1, k)
                  /\ qresponse = NoResponse
        ELSE /\ qerror = ""
             /\ qreads = qin.tickers
             /\ qresponse.returned
             /\ DOMAIN qresponse.results = Range(qin.tickers)

\* the second of two tickers has too few bars, the first had a result
C28_Witness ==
    /\ qpc = "done"
    /\ Len(qin.tickers) >= 2
    /\ Len(qreads) = 2
    /\ DOMAIN qresults = {qin.tickers[1]}
    /\ qerror = "Not enough bars for MA crossover."
    /\ qresponse = NoResponse


(* ----------------------- Claims: LLM provider ---------------------------- *)

\* C29: complete makes at most max_retries + 1 HTTP attempts, one after the
\* other with a pause between two of them; no attempt follows a successful
\* one, whose content is what is returned; a failed attempt is followed by
\* another whatever its failure was, as long as attempts are left, and when
\* none is left the call raises llm_error; a provider that is not configured
\* raises llm_not_configured without any attempt.
C29_BoundedRetries ==
    /\ Len(lhistory) <= lin.max_retries + 1
    /\ \A k \in 1..(Len(lhistory) - 1) : lhistory[k] # "ok"
    /\ lpc = "loop" => Len(lsleeps) = Len(lhistory)
    /\ (lpc \in {"failed", "done"} /\ lhistory # <<>>) =>
          Len(lsleeps) = Len(lhistory) - 1
    /\ lpc = "done" =>
          /\ ~lin.available =>
                lerror = "llm_not_configured" /\ lhistory = <<>> /\ lresult = NoContent
          /\ lin.available =>
                /\ lhistory # <<>>
                /\ IF lhistory[Len(lhistory)] = "ok"
                     THEN lerror = "" /\ lresult = [attempt |-> Len(lhistory)]
                     ELSE /\ lerror = "llm_error" /\ lresult = NoContent
                          /\ Len(lhistory) = lin.max_retries + 1

\* the third attempt succeeds after an error status that is not among the
\* retryable ones and a body that is no JSON
C29_Witness ==
    /\ lpc = "done"
    /\ lhistory = <<"http_error", "bad_body", "ok">>
    /\ lsleeps = <<15, 30>>
    /\ lresult = [attempt |-> 3]


(* ----------------------- Claims: cache refresh --------------------------- *)

Occurrences(l, x) == Cardinality({i \in 1..Len(l) : l[i] = x})

\* nothing was downloaded or written by the step just taken
NoDownloadNoWrite ==
    /\ cbars' = cbars /\ cdone' = cdone
    /\ cfiles' = cfiles /\ cdisk' = cdisk /\ cmanifest' = cmanifest

\* C30 as stated: in the lists returned every requested ticker is in exactly
\* one of succeeded and failed, and an iteration on a ticker whose manifest
\* entry is complete and fresh appends it to succeeded without download.
C30_OriginalStep ==
    /\ cpc' = "done" =>
          \A t \in Range(cin.tickers) :
             (t \in Range(csucceeded')) # (t \in Range(cfailed'))
    /\ (cpc = "ticker" /\ cidx <= Len(cin.tickers)
          /\ cmanifest[cin.tickers[cidx]] \in {"fresh", "new"}) =>
             /\ csucceeded' = Append(csucceeded, cin.tickers[cidx])
             /\ NoDownloadNoWrite

C30_Original == [][C30_OriginalStep]_vars

C30_RefreshStep ==
    LET t == cin.tickers[cidx]
        allTf == Range(RefreshTimeframes)
    IN \* every iteration ends in exactly one of the two lists
       /\ Len(csucceeded') + Len(cfailed') = cidx' - 1
       /\ cidx' > cidx =>
             \/ csucceeded' = Append(csucceeded, t) /\ cfailed' = cfailed
             \/ cfailed' = Append(cfailed, t) /\ csucceeded' = csucceeded
       \* a ready ticker succeeds at once, any other is downloaded
       /\ (cpc = "ticker" /\ cidx <= Len(cin.tickers)) =>
             IF cmanifest[t] \in {"fresh", "new"}
                /\ \A tf \in allTf : <<t, tf>> \in cfiles
               THEN csucceeded' = Append(csucceeded, t) /\ NoDownloadNoWrite
               ELSE cpc' = "download" /\ csucceeded' = csucceeded
       \* a file is written only after every timeframe was downloaded with bars
       /\ cfiles' # cfiles =>
             /\ Len(cbars) = Len(RefreshTimeframes)
             /\ \A k \in 1..Len(cbars) : cbars[k] = "bars"
             /\ cfiles' \ cfiles \subseteq {<<t, tf>> : tf \in allTf}
       \* nothing is downloaded once a file of the iteration is written
       /\ cbars' # cbars /\ cbars' # <<>> => cdone = {}
       \* a failing download or a timeframe without bars writes nothing
       /\ (cpc = "download" /\ cpc' = "ticker") =>
             /\ cfailed' = Append(cfailed, t)
             /\ cdone = {} /\ cfiles' = cfiles
             /\ cdisk' = cdisk /\ cmanifest' = cmanifest
       \* the entry is written only after all the files of the ticker
       /\ (cmanifest' # cmanifest \/ cdisk' # cdisk) =>
             /\ cdone = allTf
             /\ \A tf \in allTf : <<t, tf>> \in cfiles

\* C30: refresh appends the ticker of every iteration to exactly one of
\* succeeded and failed and always returns; a ticker whose manifest entry is
\* fresh and whose files all exist is appended to succeeded without download
\* or write, any other ticker is downloaded; all timeframes are downloaded
\* before a file is written, and a failed download or a timeframe without
\* bars leaves files and manifest as they were; the manifest entry is written
\* only after every timeframe file of the ticker is.
C30_Refresh ==
    /\ [][C30_RefreshStep]_vars
    /\ [](cpc = "done" =>
            \A t \in CacheTickers :
               Occurrences(csucceeded, t) + Occurrences(cfailed, t)
                  = Occurrences(cin.tickers, t))

\* a ticker requested twice: its first download fails, the second refresh
\* goes through, and another ticker was ready from the start
C30_Witness ==
    /\ cpc = "done"
    /\ Len(csucceeded) = 1 /\ Len(cfailed) = 1
    /\ csucceeded[1] = cfailed[1]
    /\ cdisk[csucceeded[1]] = "new"
    /\ cin.held[csucceeded[1]].entry = "fresh"

=============================================================================
